---- MODULE Spec2Model ----
(***************************************************************************)
(* Verification model of the verdant login protocol: the OPAQUE client and *)
(* server engines (src/client/auth.rs, src/server/auth.rs), the transcript *)
(* and confirmation tags (src/auth/challenge.rs), the API client bootstrap *)
(* and login exchange (src/api.rs) and the orchestrator (src/services.rs). *)
(*                                                                         *)
(* Every byte string of the program (keys, OPAQUE messages, transcripts,   *)
(* tags) is a sequence of naturals.  The primitives of the opaque-ke,      *)
(* hkdf, hmac and sha2 crates are modelled as ideal symbolic functions: a  *)
(* derived value is the concatenation of the fixed-width values it was     *)
(* derived from, so two derived values are equal exactly when they were    *)
(* derived from equal inputs.                                              *)
(***************************************************************************)
EXTENDS Integers, Sequences, FiniteSets, TLC

VARIABLES
    stored,     \* username index -> ServerRegistration bytes (<<>> = none)
    regPw,      \* username index -> password given to register_user (0 = none)
    login,      \* login attempt -> its Client, its protocol states and results
    tag,        \* the inputs and results of the confirmation-tag operations
    cmd_rx,     \* the command channel: VerdantCmd values sent and not yet received
    ui_rx,      \* the UI channel: every VerdantUiCmd the orchestrator has sent
    clients,    \* the orchestrator's map: URL -> APIClient
    svc,        \* the orchestrator task: where it is suspended, and its locals
    http,       \* every HTTP request the client side has issued
    sent,       \* number of commands sent on the command channel
    discoverer, \* the discovery task: its callback's Vec known, and whether it runs
    sess,       \* login session -> the client's side of a login against the server
    pending,    \* the server's map: session id -> the state kept for that login
    fin,        \* the server's last finalize: the upload, the answer, and history
    wire,       \* a login whose messages travel as JSON text
    native,     \* the C interface: runtimes, service handles and the last call
    ct          \* two tag comparisons against one expected tag, and their cost

protoVars == <<stored, regPw, login>>
tagVars == <<tag>>
apiVars == <<cmd_rx, ui_rx, clients, svc, http, sent>>
discVars == <<discoverer>>
srvVars == <<sess, pending, fin>>
wireVars == <<wire>>
nativeVars == <<native>>
ctVars == <<ct>>
moreVars == <<nativeVars, ctVars>>
extVars == <<discVars, srvVars, wireVars>>
vars == <<stored, regPw, login, tag, cmd_rx, ui_rx, clients, svc, http, sent, discoverer,
          sess, pending, fin, wire, native, ct>>

----------------------------------------------------------------------------
(* Bounds of the model *)

MaxUsers == 2
MaxPw == 2
MaxLogins == 2

Users == 1 .. MaxUsers
Passwords == 1 .. MaxPw
Attempts == 1 .. MaxLogins

----------------------------------------------------------------------------
(* Byte-string helpers *)

RECURSIVE NameOf(_)
\* the username strings of the model: "a", "b", "aa", "ab", "aaa", ...
NameOf(i) == IF i <= 2 THEN <<96 + i>> ELSE <<97>> \o NameOf(i - 2)

\* ideal hash of a username into one byte: the index of the name
NameHash(name) == CHOOSE i \in 1 .. (MaxUsers + 2) : NameOf(i) = name

Slice(s, a, b) == SubSeq(s, a, b)

NoBytes == <<>>

\* order on byte strings of equal length
SeqLeq(a, b) ==
    LET d == {i \in 1 .. Len(a) : a[i] /= b[i]}
    IN  d = {} \/ (LET m == CHOOSE i \in d : \A j \in d : i <= j IN a[m] < b[m])

----------------------------------------------------------------------------
(* The base64 crate: standard alphabet, padding *)

\* the character of a 6-bit value: A-Z, a-z, 0-9, '+', '/'
B64Char(v) ==
    IF v < 26 THEN 65 + v
    ELSE IF v < 52 THEN 97 + (v - 26)
    ELSE IF v < 62 THEN 48 + (v - 52)
    ELSE IF v = 62 THEN 43 ELSE 47

B64Pad == 61

\* the 6-bit value of a character, 64 when it is not in the alphabet
B64Value(c) ==
    IF c >= 65 /\ c <= 90 THEN c - 65
    ELSE IF c >= 97 /\ c <= 122 THEN c - 97 + 26
    ELSE IF c >= 48 /\ c <= 57 THEN c - 48 + 52
    ELSE IF c = 43 THEN 62
    ELSE IF c = 47 THEN 63 ELSE 64

RECURSIVE base64_encode(_)
base64_encode(b) ==
    IF Len(b) = 0 THEN <<>>
    ELSE IF Len(b) = 1 THEN
        <<B64Char(b[1] \div 4), B64Char((b[1] % 4) * 16), B64Pad, B64Pad>>
    ELSE IF Len(b) = 2 THEN
        <<B64Char(b[1] \div 4), B64Char((b[1] % 4) * 16 + b[2] \div 16),
          B64Char((b[2] % 16) * 4), B64Pad>>
    ELSE
        <<B64Char(b[1] \div 4), B64Char((b[1] % 4) * 16 + b[2] \div 16),
          B64Char((b[2] % 16) * 4 + b[3] \div 64), B64Char(b[3] % 64)>>
            \o base64_encode(SubSeq(b, 4, Len(b)))

\* the bytes of one group of four characters; the padded forms must be the
\* last group and carry no stray bits
B64Group(g) ==
    LET v == [i \in 1 .. 4 |-> B64Value(g[i])]
    IN  IF g[3] = B64Pad /\ g[4] = B64Pad
        THEN <<v[1] * 4 + v[2] \div 16>>
        ELSE IF g[4] = B64Pad
        THEN <<v[1] * 4 + v[2] \div 16, (v[2] % 16) * 16 + v[3] \div 4>>
        ELSE <<v[1] * 4 + v[2] \div 16, (v[2] % 16) * 16 + v[3] \div 4,
               (v[3] % 4) * 64 + v[4]>>

B64GroupOk(g, last) ==
    LET v == [i \in 1 .. 4 |-> B64Value(g[i])]
    IN  /\ v[1] < 64 /\ v[2] < 64
        /\ IF g[4] = B64Pad
           THEN /\ last
                /\ IF g[3] = B64Pad THEN v[2] % 16 = 0
                                    ELSE v[3] < 64 /\ v[3] % 4 = 0
           ELSE v[3] < 64 /\ v[4] < 64

RECURSIVE B64Ok(_)
B64Ok(s) ==
    IF Len(s) = 0 THEN TRUE
    ELSE IF Len(s) < 4 THEN FALSE
    ELSE B64GroupOk(SubSeq(s, 1, 4), Len(s) = 4) /\ B64Ok(SubSeq(s, 5, Len(s)))

RECURSIVE B64Bytes(_)
B64Bytes(s) ==
    IF Len(s) = 0 THEN <<>>
    ELSE B64Group(SubSeq(s, 1, 4)) \o B64Bytes(SubSeq(s, 5, Len(s)))

\* base64::decode: Ok(bytes) or Err(DecodeError)
base64_decode(s) ==
    IF B64Ok(s) THEN [ok |-> TRUE, bytes |-> B64Bytes(s)]
                ELSE [ok |-> FALSE, bytes |-> <<>>]

----------------------------------------------------------------------------
(* The cipher suite: OPRF and key-exchange group Ristretto255, TripleDh,   *)
(* identity KSF.                                                           *)

\* a key pair generated from one random draw n; the public key names its secret
RandSk(n) == <<0, 0, 0, n>>
Pk(sk) == sk

\* Diffie-Hellman: DH(a, Pk(b)) = DH(b, Pk(a))
DH(sk, pk) == IF SeqLeq(sk, pk) THEN sk \o pk ELSE pk \o sk

\* OPRF: blind the password with r, evaluate under the key, unblind
Blind(pw, r) == <<pw, r>>
\* a key derivation that leaves the credential identifier out
OprfKey_unbound(seed, cred_id) == <<seed, 0>>
OprfKey(seed, cred_id) == <<seed, NameHash(cred_id)>>
Evaluate(k, blinded) == k \o blinded
Finalize(pw, r, evaluated) ==
    IF evaluated[4] = r /\ evaluated[3] = pw
    THEN <<evaluated[1], evaluated[2], pw>>
    ELSE <<0, 0, 0>>

\* TripleDh input keying material and the keys derived from it
SessionKeyOf(ikm) == <<1>> \o ikm
ServerMacOf(ikm) == <<2>> \o ikm
ClientMacOf(ikm) == <<3>> \o ikm
ExportKeyOf(rwd, n) == <<4>> \o rwd \o <<n>>

\* ServerSetup::new(rng): the OPRF seed and the server's static key pair
ServerSetupNew(r1, r2) == [oprf_seed |-> r1, sk |-> RandSk(r2)]

\* ClientRegistration::start
ClientRegistrationStart(r, pw) ==
    [state |-> [blind |-> r, blinded |-> Blind(pw, r)], message |-> Blind(pw, r)]

\* ServerRegistration::start
ServerRegistrationStart(setup, request, cred_id) ==
    [message |-> Evaluate(OprfKey(setup.oprf_seed, cred_id), request) \o Pk(setup.sk)]

\* ClientRegistration::finish: the envelope seals the client key pair under
\* the OPRF output; the upload is client_pk (4) || masking_key (3) || envelope (8)
ClientRegistrationFinish(state, n, pw, response) ==
    LET rwd == Finalize(pw, state.blind, Slice(response, 1, 4))
        server_pk == Slice(response, 5, 8)
        client_sk == rwd \o <<n>>
        envelope == <<n>> \o rwd \o server_pk
    IN  [message |-> Pk(client_sk) \o rwd \o envelope,
         export_key |-> ExportKeyOf(rwd, n),
         server_s_pk |-> server_pk]

\* ServerRegistration::finish
ServerRegistrationFinish(upload) == upload

\* ClientLogin::start: the CredentialRequest is blinded (2) || ephemeral pk (4)
ClientLoginStart(r, e, pw) ==
    [state |-> [blind |-> r, blinded |-> Blind(pw, r), e_sk |-> RandSk(e)],
     message |-> Blind(pw, r) \o Pk(RandSk(e))]

\* ServerLogin::start: the CredentialResponse is
\* evaluated (4) || masked response (16) || ephemeral pk (4) || server mac (25)
ServerLoginStart(m, e, setup, record, request, cred_id) ==
    LET evaluated == Evaluate(OprfKey(setup.oprf_seed, cred_id), Slice(request, 1, 2))
        e_c_pk == Slice(request, 3, 6)
        client_pk == Slice(record, 1, 4)
        masking_key == Slice(record, 5, 7)
        envelope == Slice(record, 8, 15)
        masked == <<m>> \o masking_key \o Pk(setup.sk) \o envelope
        e_sk == RandSk(e)
        ikm == DH(e_sk, e_c_pk) \o DH(setup.sk, e_c_pk) \o DH(e_sk, client_pk)
    IN  [state |-> [session_key |-> SessionKeyOf(ikm), expected_mac |-> ClientMacOf(ikm)],
         message |-> evaluated \o masked \o Pk(e_sk) \o ServerMacOf(ikm)]

\* ClientLogin::finish: unmask and open the envelope with the OPRF output of
\* the given password, then run TripleDh and check the server's mac
ClientLoginFinish(state, pw, response) ==
    LET rwd == Finalize(pw, state.blind, Slice(response, 1, 4))
        masking_key == Slice(response, 6, 8)
        server_pk == Slice(response, 9, 12)
        envelope == Slice(response, 13, 20)
        n == envelope[1]
        e_s_pk == Slice(response, 21, 24)
        server_mac == Slice(response, 25, 49)
        client_sk == rwd \o <<n>>
        ikm == DH(state.e_sk, e_s_pk) \o DH(state.e_sk, server_pk) \o DH(client_sk, e_s_pk)
        opened == /\ masking_key = rwd
                  /\ Slice(envelope, 2, 4) = rwd
                  /\ Slice(envelope, 5, 8) = server_pk
    IN  IF opened /\ server_mac = ServerMacOf(ikm)
        THEN [ok |-> TRUE, session_key |-> SessionKeyOf(ikm), message |-> ClientMacOf(ikm),
              export_key |-> ExportKeyOf(rwd, n)]
        ELSE [ok |-> FALSE, session_key |-> <<>>, message |-> <<>>, export_key |-> <<>>]

\* ServerLogin::finish
ServerLoginFinish(state, finalization) ==
    IF finalization = state.expected_mac
    THEN [ok |-> TRUE, session_key |-> state.session_key]
    ELSE [ok |-> FALSE, session_key |-> <<>>]

----------------------------------------------------------------------------
(* src/client/auth.rs: Client *)

\* a generator seeded per role: all clients draw the same values, and all
\* servers do
OsRng_by_role(c, k) == 2 * (c % 2) + k

\* a generator seeded with a constant: every call draws the same values
OsRng_fixed(c, k) == k

\* OsRng never repeats a value: the k-th draw (k = 1, 2) of the call that owns
\* the generator `c` is a value no other call draws
OsRng(c, k) == 2 * c + k

Client_new(password) == [password |-> password]

Client_start_registration(self, c) ==
    LET start == ClientRegistrationStart(OsRng(c, 1), self.password)
    IN  [state |-> start.state, message |-> start.message]

Client_finish_registration(self, c, registration, response) ==
    ClientRegistrationFinish(registration, OsRng(c, 1), self.password, response).message

Client_start_login(self, c) ==
    LET result == ClientLoginStart(OsRng(c, 1), OsRng(c, 2), self.password)
    IN  [state |-> result.state, message |-> result.message]

\* a finish_login that returns the result's export_key as the session key
Client_finish_login_export(self, client_login, credential_response) ==
    LET result == ClientLoginFinish(client_login, self.password, credential_response)
    IN  IF result.ok
        THEN [ok |-> TRUE, key |-> result.export_key, fin |-> result.message]
        ELSE [ok |-> FALSE, key |-> <<>>, fin |-> <<>>]

\* a finish_login that does not propagate the protocol error
Client_finish_login_unchecked(self, client_login, credential_response) ==
    LET result == ClientLoginFinish(client_login, self.password, credential_response)
    IN  [ok |-> TRUE, key |-> result.session_key, fin |-> result.message]

Client_finish_login(self, client_login, credential_response) ==
    LET result == ClientLoginFinish(client_login, self.password, credential_response)
    IN  IF result.ok
        THEN [ok |-> TRUE, key |-> result.session_key, fin |-> result.message]
        ELSE [ok |-> FALSE, key |-> <<>>, fin |-> <<>>]

----------------------------------------------------------------------------
(* src/server/auth.rs: Server *)

Server_new(setup) == [setup |-> setup]

Server_start_registration(self, request, username) ==
    ServerRegistrationStart(self.setup, request, username).message

Server_finish_registration(self, upload) == ServerRegistrationFinish(upload)

Server_start_login(self, c, registration, credential_request, username) ==
    LET result == ServerLoginStart(OsRng(c, 1), OsRng(c, 2), self.setup, registration,
                                   credential_request, username)
    IN  [state |-> result.state, message |-> result.message]

\* a finish_login that returns the client's message instead of the session key
Server_finish_login_echo(self, server_login, client_finalization) ==
    LET result == ServerLoginFinish(server_login, client_finalization)
    IN  IF result.ok THEN [ok |-> TRUE, key |-> client_finalization]
                     ELSE [ok |-> FALSE, key |-> <<>>]

Server_finish_login(self, server_login, client_finalization) ==
    LET result == ServerLoginFinish(server_login, client_finalization)
    IN  IF result.ok THEN [ok |-> TRUE, key |-> result.session_key]
                     ELSE [ok |-> FALSE, key |-> <<>>]

----------------------------------------------------------------------------
(* src/auth/mod.rs: register_user *)

\* the record register_user returns; c and c + 1 are the generators of its two
\* client steps
register_user(server, c, username, password) ==
    LET client == Client_new(password)
        start == Client_start_registration(client, c)
        response == Server_start_registration(server, start.message, username)
        upload == Client_finish_registration(client, c + 1, start.state, response)
    IN  Server_finish_registration(server, upload)

----------------------------------------------------------------------------
(* src/auth/challenge.rs: transcript and confirmation tags *)

LOGIN_TRANSCRIPT_V1 ==
    <<76, 79, 71, 73, 78, 95, 84, 82, 65, 78, 83, 67, 82, 73, 80, 84, 95, 86, 49>>
LabelClient == <<99, 108, 105, 101, 110, 116>>
LabelServer == <<115, 101, 114, 118, 101, 114>>
InfoConfirmation == <<99, 111, 110, 102, 105, 114, 109, 97, 116, 105, 111, 110>>

\* an encoding without the length prefix
EncodeBytes_raw(b) == b

\* bincode's standard configuration: a string or byte slice is its length as a
\* varint (one byte below 251) followed by its bytes
EncodeBytes(b) == <<Len(b)>> \o b

\* #[derive(bincode::Encode)] on LoginRequest: the fields in declaration order
EncodeLoginRequest(request) ==
    EncodeBytes(request.username) \o EncodeBytes(request.credentials)

\* the values of LoginResponse; the fields a variant does not have are empty
LoginResponse_OTP(text) == [variant |-> "OTP", text |-> text, id |-> NoBytes, cred |-> NoBytes]
LoginResponse_PAKE(id, cred) == [variant |-> "PAKE", text |-> NoBytes, id |-> id, cred |-> cred]
LoginResponse_AccessDenied ==
    [variant |-> "AccessDenied", text |-> NoBytes, id |-> NoBytes, cred |-> NoBytes]

\* bincode::serde on LoginResponse: the variant index, then the variant's
\* fields; the Uuid and the CredentialResponse serialize as byte slices
EncodeLoginResponse(response) ==
    CASE response.variant = "OTP" -> <<0>> \o EncodeBytes(response.text)
      [] response.variant = "PAKE" ->
            <<1>> \o EncodeBytes(response.id) \o EncodeBytes(response.cred)
      [] OTHER -> <<2>>

\* Transcript::compute_transcript
compute_transcript(request, response) ==
    LOGIN_TRANSCRIPT_V1 \o EncodeLoginRequest(request) \o EncodeLoginResponse(response)

\* a Display with the unpadded alphabet
Transcript_to_string_nopad(self) ==
    SelectSeq(base64_encode(self), LAMBDA c : c /= B64Pad)

\* impl Display for Transcript: STANDARD.encode of the bytes
Transcript_to_string(self) == base64_encode(self)

\* impl FromStr for Transcript: STANDARD.decode, Ok(Transcript) or Err
Transcript_from_str(s) ==
    LET decoded == base64_decode(s)
    IN  [ok |-> decoded.ok, transcript |-> decoded.bytes]

\* a key derivation that leaves the session key out
derive_k_confirm_fixed(k_session) == InfoConfirmation

\* HKDF-SHA256(salt = none, ikm = k_session, info = "confirmation"), ideal
derive_k_confirm(k_session) == <<Len(k_session)>> \o k_session \o InfoConfirmation

\* HMAC-SHA256(k_confirm, data), ideal
compute_hmac(k_confirm, data) == <<Len(k_confirm)>> \o k_confirm \o data

\* the values of LoginResult
LoginResult_Success(token) == [variant |-> "Success", text |-> token]
LoginResult_PasswordReset == [variant |-> "PasswordReset", text |-> NoBytes]
LoginResult_Unauthorized == [variant |-> "Unauthorized", text |-> NoBytes]
LoginResult_UnknownServer(url) == [variant |-> "UnknownServer", text |-> url]

LoginUpload_new(id, upload, session_key, request, response) ==
    LET k_confirm == derive_k_confirm(session_key)
        transcript == compute_transcript(request, response)
        data == transcript \o LabelClient
    IN  [id |-> id, upload |-> upload, client_tag |-> compute_hmac(k_confirm, data)]

LoginUpload_verify_transcript(self, session_key, transcript) ==
    LET k_confirm == derive_k_confirm(session_key)
        data == transcript \o LabelClient
        expected == compute_hmac(k_confirm, data)
    IN  expected = self.client_tag

LoginUpload_verify(self, session_key, request, response) ==
    LoginUpload_verify_transcript(self, session_key, compute_transcript(request, response))

TagSize == 32

\* a refusal that reports a password reset
LoginCompletion_unauthorized_reset ==
    [result |-> LoginResult_PasswordReset, server_tag |-> [i \in 1 .. TagSize |-> 0]]

LoginCompletion_unauthorized ==
    [result |-> LoginResult_Unauthorized, server_tag |-> [i \in 1 .. TagSize |-> 0]]

LoginCompletion_new(result, session_key, transcript) ==
    LET k_confirm == derive_k_confirm(session_key)
        data == transcript \o LabelServer
    IN  [result |-> result, server_tag |-> compute_hmac(k_confirm, data)]

\* a verification under the client's label
LoginCompletion_transcript_verify_client(self, session_key, transcript) ==
    LET k_confirm == derive_k_confirm(session_key)
        data == transcript \o LabelClient
        expected == compute_hmac(k_confirm, data)
    IN  expected = self.server_tag

LoginCompletion_transcript_verify(self, session_key, transcript) ==
    LET k_confirm == derive_k_confirm(session_key)
        data == transcript \o LabelServer
        expected == compute_hmac(k_confirm, data)
    IN  expected = self.server_tag

LoginCompletion_verify(self, session_key, request, response) ==
    LoginCompletion_transcript_verify(self, session_key,
                                      compute_transcript(request, response))

----------------------------------------------------------------------------
(* src/api.rs: key types, PubKeyResponse, APIClient *)

\* SHA-256, ideal: the digest names its input
Sha256(data) == <<Len(data)>> \o data

\* crypto::sha256_base64 of a key's DER bytes: the pubkey_hash of a Discovery
KeyHash(der) == base64_encode(Sha256(der))

KeyType_Rsa == [variant |-> "Rsa", text |-> NoBytes]
KeyType_Ec == [variant |-> "Ec", text |-> NoBytes]
KeyType_Ed25519 == [variant |-> "Ed25519", text |-> NoBytes]
KeyType_Ed448 == [variant |-> "Ed448", text |-> NoBytes]
KeyType_Unknown(u) == [variant |-> "Unknown", text |-> u]

\* the content bytes of the algorithm OIDs
OidRsaEncryption == <<42, 134, 72, 134, 247, 13, 1, 1, 1>>    \* 1.2.840.113549.1.1.1
OidEcPublicKey == <<42, 134, 72, 206, 61, 2, 1>>              \* 1.2.840.10045.2.1
OidEd25519 == <<43, 101, 112>>                                \* 1.3.101.112
OidEd448 == <<43, 101, 113>>                                  \* 1.3.101.113

\* a DER SubjectPublicKeyInfo: the algorithm OID (length, content), then the key
Spki(oid, key) == <<Len(oid)>> \o oid \o key
SpkiOid(der) == SubSeq(der, 2, 1 + der[1])

detect_key_type(der) ==
    LET oid == SpkiOid(der)
    IN  IF oid = OidRsaEncryption THEN KeyType_Rsa
        ELSE IF oid = OidEd25519 THEN KeyType_Ed25519
        ELSE IF oid = OidEd448 THEN KeyType_Ed448
        ELSE IF oid = OidEcPublicKey THEN KeyType_Ec
        ELSE KeyType_Unknown(oid)

NoKey == [family |-> "none", der |-> NoBytes]

\* PubKeyResponse::decode_pubkey: Ok(DecodingKey) or an error
decode_pubkey(self) ==
    LET resp == base64_decode(self.pubkey)
    IN  IF ~resp.ok THEN [ok |-> FALSE, err |-> "Base64Error", key |-> NoKey]
        ELSE CASE self.key_type.variant = "Rsa" ->
                    [ok |-> TRUE, err |-> "", key |-> [family |-> "Rsa", der |-> resp.bytes]]
               [] self.key_type.variant = "Ec" ->
                    [ok |-> TRUE, err |-> "", key |-> [family |-> "Ec", der |-> resp.bytes]]
               [] self.key_type.variant = "Ed25519" ->
                    [ok |-> TRUE, err |-> "", key |-> [family |-> "Ed", der |-> resp.bytes]]
               [] OTHER -> [ok |-> FALSE, err |-> "UnknownKeyType", key |-> NoKey]

\* Discovery::urls().get(0)
FirstUrl(discovery) ==
    IF Len(discovery.urls) = 0 THEN NoBytes ELSE discovery.urls[1]

NoClient ==
    [present |-> FALSE, url |-> NoBytes, decoder |-> NoKey, validation |-> {},
     access_token |-> NoBytes, pubkey_hash |-> NoBytes]

\* the hash from_discovery computes: the hasher is finalized without input
ComputedKeyHash(response) == base64_encode(Sha256(<<>>))

\* APIClient::from_discovery after the reply to GET {url}/pubkey arrived (with
\* no first URL it returns MissingIpAddr before any request).  A reply is
\* [status, parsed, key_type, pubkey]: the status is not looked at, a
\* transport error fails the call, a body that is no PubKeyResponse fails
\* to parse, and the computed hash is compared with nothing.
from_discovery(discovery, reply) ==
    IF Len(discovery.urls) = 0 THEN [ok |-> FALSE, err |-> "MissingIpAddr", client |-> NoClient]
    ELSE IF reply.status = "transport_error"
    THEN [ok |-> FALSE, err |-> "Http", client |-> NoClient]
    ELSE IF ~reply.parsed THEN [ok |-> FALSE, err |-> "JsonErr", client |-> NoClient]
    ELSE LET key_hash_base64 == ComputedKeyHash(reply)
             key == decode_pubkey(reply)
         IN  IF ~key.ok THEN [ok |-> FALSE, err |-> key.err, client |-> NoClient]
             ELSE [ok |-> TRUE, err |-> "",
                   client |-> [present |-> TRUE, url |-> FirstUrl(discovery),
                               decoder |-> key.key,
                               validation |-> {"RS256", "RS384", "RS512"},
                               access_token |-> NoBytes,
                               pubkey_hash |-> discovery.pubkey_hash]]

\* APIClient::validate_token: the decode call is commented out
validate_token(self, token, decoder) == [ok |-> TRUE, token |-> token]

\* LoginRequest::new (src/client/auth.rs)
\* a LoginRequest that carries the serialized CredentialRequest as it is
LoginRequest_new_raw(username, credentials) ==
    [username |-> username, credentials |-> credentials]

LoginRequest_new(username, credentials) ==
    [username |-> username, credentials |-> base64_encode(credentials)]

NoLoginRequest == [username |-> NoBytes, credentials |-> NoBytes]
NoClientLogin == [blind |-> 0, blinded |-> NoBytes, e_sk |-> NoBytes]
NoServerLogin == [session_key |-> NoBytes, expected_mac |-> NoBytes]
NoUpload == [id |-> NoBytes, upload |-> NoBytes, client_tag |-> NoBytes]
NoCompletion == [result |-> LoginResult_Unauthorized, server_tag |-> NoBytes]

\* APIClient::login up to its first await: the OPAQUE client is built from the
\* password, the login is started, the LoginRequest is built and posted
login_start(username, password, c) ==
    LET opaque_client == Client_new(password)
        started == Client_start_login(opaque_client, c)
    IN  [opaque_client |-> opaque_client,
         client_login |-> started.state,
         login_request |-> LoginRequest_new(username, started.message)]

\* an outcome of a part of APIClient::login: it returned (Ok(result) or
\* Err(err)), it panicked, or it goes on to the next request
LoginOutcome(kind, result, err, key, upload, token) ==
    [kind |-> kind, result |-> result, err |-> err, key |-> key, upload |-> upload,
     access_token |-> token]
LoginReturnsOk(self, result) ==
    LoginOutcome("ok", result, "", NoBytes, NoUpload, self.access_token)
\* an error return that also forgets the token of an earlier login
LoginReturnsErr_clearing(self, err) ==
    LoginOutcome("err", LoginResult_Unauthorized, err, NoBytes, NoUpload, NoBytes)
LoginReturnsErr(self, err) ==
    LoginOutcome("err", LoginResult_Unauthorized, err, NoBytes, NoUpload, self.access_token)

\* a login that posts an upload to the finalize endpoint on OTP as well
login_on_response_otp_finalize(self, opaque_client, client_login, login_request, reply) ==
    IF reply.status /= "ok" \/ ~reply.parsed THEN LoginReturnsErr(self, "Http")
    ELSE LET initial_resp == reply.response
         IN  CASE initial_resp.variant = "OTP" ->
                    LoginOutcome("continue", LoginResult_Unauthorized, "", <<9>>,
                                 LoginUpload_new(initial_resp.id, <<3>>, <<9>>,
                                                 login_request, initial_resp),
                                 self.access_token)
               [] initial_resp.variant = "PAKE" ->
                    LET r == Client_finish_login(opaque_client, client_login, initial_resp.cred)
                    IN  IF r.ok
                        THEN LoginOutcome("continue", LoginResult_Unauthorized, "", r.key,
                                          LoginUpload_new(initial_resp.id, r.fin, r.key,
                                                          login_request, initial_resp),
                                          self.access_token)
                        ELSE LoginReturnsErr(self, "Opaque")
               [] OTHER -> LoginReturnsOk(self, LoginResult_Unauthorized)

\* a login that answers AccessDenied like OTP
login_on_response_denied_reset(self, opaque_client, client_login, login_request, reply) ==
    IF reply.status /= "ok" \/ ~reply.parsed THEN LoginReturnsErr(self, "Http")
    ELSE LET initial_resp == reply.response
         IN  CASE initial_resp.variant = "PAKE" ->
                    LET r == Client_finish_login(opaque_client, client_login, initial_resp.cred)
                    IN  IF r.ok
                        THEN LoginOutcome("continue", LoginResult_Unauthorized, "", r.key,
                                          LoginUpload_new(initial_resp.id, r.fin, r.key,
                                                          login_request, initial_resp),
                                          self.access_token)
                        ELSE LoginReturnsErr(self, "Opaque")
               [] OTHER -> LoginReturnsOk(self, LoginResult_PasswordReset)

\* a login whose upload carries an id of its own
login_on_response_own_id(self, opaque_client, client_login, login_request, reply) ==
    IF reply.status /= "ok" \/ ~reply.parsed THEN LoginReturnsErr(self, "Http")
    ELSE LET initial_resp == reply.response
         IN  CASE initial_resp.variant = "OTP" -> LoginReturnsOk(self, LoginResult_PasswordReset)
               [] initial_resp.variant = "PAKE" ->
                    LET r == Client_finish_login(opaque_client, client_login, initial_resp.cred)
                    IN  IF r.ok
                        THEN LoginOutcome("continue", LoginResult_Unauthorized, "", r.key,
                                          LoginUpload_new(<<0>>, r.fin, r.key,
                                                          login_request, initial_resp),
                                          self.access_token)
                        ELSE LoginReturnsErr(self, "Opaque")
               [] OTHER -> LoginReturnsOk(self, LoginResult_Unauthorized)

\* APIClient::login from the reply to POST /auth/api/login/ to its second await
\* (or its return).  A reply is [status, parsed, response].
login_on_response(self, opaque_client, client_login, login_request, reply) ==
    IF reply.status /= "ok" \/ ~reply.parsed THEN LoginReturnsErr(self, "Http")
    ELSE LET initial_resp == reply.response
         IN  CASE initial_resp.variant = "OTP" -> LoginReturnsOk(self, LoginResult_PasswordReset)
               [] initial_resp.variant = "PAKE" ->
                    LET r == Client_finish_login(opaque_client, client_login, initial_resp.cred)
                    IN  IF r.ok
                        THEN LoginOutcome("continue", LoginResult_Unauthorized, "", r.key,
                                          LoginUpload_new(initial_resp.id, r.fin, r.key,
                                                          login_request, initial_resp),
                                          self.access_token)
                        ELSE LoginReturnsErr(self, "Opaque")
               [] OTHER -> LoginReturnsOk(self, LoginResult_Unauthorized)

\* a login that takes the completion's result without verifying its tag
login_on_completion_unverified(self, key, login_request, initial_resp, reply) ==
    IF reply.status /= "ok" \/ ~reply.parsed THEN LoginReturnsErr(self, "Http")
    ELSE LET final_resp == reply.completion
         IN  IF final_resp.result.variant = "Success"
             THEN LoginOutcome("ok", LoginResult_Success(final_resp.result.text), "",
                               NoBytes, NoUpload, final_resp.result.text)
             ELSE LoginReturnsOk(self, final_resp.result)

\* APIClient::login from the reply to POST /auth/api/login/finalize to its
\* return.  A reply is [status, parsed, completion].
login_on_completion(self, key, login_request, initial_resp, reply) ==
    IF reply.status /= "ok" \/ ~reply.parsed THEN LoginReturnsErr(self, "Http")
    ELSE LET final_resp == reply.completion
         IN  IF ~LoginCompletion_verify(final_resp, key, login_request, initial_resp)
             THEN LoginOutcome("panic", LoginResult_Unauthorized,
                               "failed to verify server authenticity", NoBytes, NoUpload,
                               self.access_token)
             ELSE IF final_resp.result.variant = "Success"
             THEN LET checked == validate_token(self, final_resp.result.text, self.decoder)
                  IN  IF checked.ok
                      THEN LoginOutcome("ok", LoginResult_Success(checked.token), "",
                                        NoBytes, NoUpload, checked.token)
                      ELSE LoginReturnsErr(self, "JSONWebToken")
             ELSE LoginReturnsOk(self, final_resp.result)

----------------------------------------------------------------------------
(* The protocol as the tests of src/auth/mod.rs drive it: one server, users *)
(* registered with register_user, and login attempts stepping through      *)
(* Client::start_login, Server::start_login, Client::finish_login and      *)
(* Server::finish_login, interleaved in any order.                         *)

\* the generators: 0 is ServerSetup::new's, then two per register_user call and
\* two per login attempt (the client's and the server's)
RngOfSetup == 0
RngOfRegistration(u) == 2 * u - 1
RngOfClient(i) == 2 * MaxUsers + 2 * i - 1
RngOfServer(i) == 2 * MaxUsers + 2 * i

\* the server of the tests: ServerSetup::new(&mut OsRng)
TheServer == Server_new(ServerSetupNew(OsRng(RngOfSetup, 1), OsRng(RngOfSetup, 2)))

IdleLogin ==
    [pc |-> "idle", client |-> Client_new(0), user |-> 0, uname |-> 0,
     client_login |-> [blind |-> 0, blinded |-> NoBytes, e_sk |-> NoBytes],
     credential_request |-> NoBytes,
     server_login |-> [session_key |-> NoBytes, expected_mac |-> NoBytes],
     credential_response |-> NoBytes,
     client_key |-> NoBytes, client_finalization |-> NoBytes, server_key |-> NoBytes,
     client_finishes |-> 0, server_finishes |-> 0]

ProtoInit ==
    /\ stored = [u \in Users |-> NoBytes]
    /\ regPw = [u \in Users |-> 0]
    /\ login = [i \in Attempts |-> IdleLogin]

RegisterUser(u, p) ==
    /\ stored[u] = NoBytes
    /\ stored' = [stored EXCEPT ![u] = register_user(TheServer, RngOfRegistration(u), NameOf(u), p)]
    /\ regPw' = [regPw EXCEPT ![u] = p]
    /\ UNCHANGED <<login, tagVars, apiVars, extVars, moreVars>>

ClientStartLogin(i, p) ==
    /\ login[i].pc = "idle"
    /\ LET client == Client_new(p)
           r == Client_start_login(client, RngOfClient(i))
       IN  login' = [login EXCEPT ![i] = [@ EXCEPT !.pc = "client_started",
                                                   !.client = client,
                                                   !.client_login = r.state,
                                                   !.credential_request = r.message]]
    /\ UNCHANGED <<stored, regPw, tagVars, apiVars, extVars, moreVars>>

ServerStartLogin(i, u, n) ==
    /\ login[i].pc = "client_started"
    /\ stored[u] /= NoBytes
    /\ LET r == Server_start_login(TheServer, RngOfServer(i), stored[u],
                                   login[i].credential_request, NameOf(n))
       IN  login' = [login EXCEPT ![i] = [@ EXCEPT !.pc = "server_started",
                                                   !.user = u,
                                                   !.uname = n,
                                                   !.server_login = r.state,
                                                   !.credential_response = r.message]]
    /\ UNCHANGED <<stored, regPw, tagVars, apiVars, extVars, moreVars>>

\* a caller that hands the ClientLogin of a failed finish_login to
\* finish_login once more
ClientFinishLogin_retry(i) ==
    /\ login[i].pc \in {"server_started", "client_failed"}
    /\ login[i].client_finishes < 2
    /\ LET r == Client_finish_login(login[i].client, login[i].client_login,
                                    login[i].credential_response)
       IN  login' = [login EXCEPT ![i] = [@ EXCEPT
                        !.pc = IF r.ok THEN "client_finished" ELSE "client_failed",
                        !.client_key = r.key,
                        !.client_finalization = r.fin,
                        !.client_finishes = @ + 1]]
    /\ UNCHANGED <<stored, regPw, tagVars, apiVars, extVars, moreVars>>

\* finish_login takes the ClientLogin by value: the attempt's state is moved
\* into the call, which is the only one it can be given to; client_finishes
\* and server_finishes count the finish calls that received the attempt's
\* states
ClientFinishLogin(i) ==
    /\ login[i].pc = "server_started"
    /\ LET r == Client_finish_login(login[i].client, login[i].client_login,
                                    login[i].credential_response)
       IN  login' = [login EXCEPT ![i] = [@ EXCEPT
                        !.pc = IF r.ok THEN "client_finished" ELSE "client_failed",
                        !.client_key = r.key,
                        !.client_finalization = r.fin,
                        !.client_finishes = @ + 1]]
    /\ UNCHANGED <<stored, regPw, tagVars, apiVars, extVars, moreVars>>

ServerFinishLogin(i) ==
    /\ login[i].pc = "client_finished"
    /\ LET r == Server_finish_login(TheServer, login[i].server_login,
                                    login[i].client_finalization)
       IN  login' = [login EXCEPT ![i] = [@ EXCEPT
                        !.pc = IF r.ok THEN "server_finished" ELSE "server_failed",
                        !.server_key = r.key,
                        !.server_finishes = @ + 1]]
    /\ UNCHANGED <<stored, regPw, tagVars, apiVars, extVars, moreVars>>

ProtoNext ==
    \/ \E u \in Users, p \in Passwords : RegisterUser(u, p)
    \/ \E i \in Attempts, p \in Passwords : ClientStartLogin(i, p)
    \/ \E i \in Attempts, u \in Users : ServerStartLogin(i, u, u)
    \/ \E i \in Attempts : ClientFinishLogin(i)
    \/ \E i \in Attempts : ServerFinishLogin(i)

----------------------------------------------------------------------------
(* The orchestrator task verdant_service of src/services.rs, suspended at   *)
(* its awaits: the receive on the command channel and the HTTP replies that *)
(* APIClient::from_discovery, APIClient::login and get_livekit_token wait   *)
(* for.  The servers behind the URLs are the environment: every reply they  *)
(* can give is an input.                                                    *)

MaxCmds == 3

\* the URLs "u1", "u2"
Url(i) == <<117, 48 + i>>
Urls == {Url(1), Url(2)}

\* the keys a /pubkey endpoint may serve
GenuineDer == Spki(OidRsaEncryption, <<1>>)
AttackerDer == Spki(OidRsaEncryption, <<2>>)
Ed448Der == Spki(OidEd448, <<1>>)
EcDer == Spki(OidEcPublicKey, <<1>>)

\* a keycast Discovery, as far as the program reads it
NoDiscovery == [urls |-> <<>>, pubkey_hash |-> NoBytes]
Discoveries ==
    {[urls |-> us, pubkey_hash |-> KeyHash(GenuineDer)] :
        us \in {<<>>} \cup {<<u>> : u \in Urls}}

\* VerdantCmd
VerdantCmd_Login(url, username, password) ==
    [variant |-> "Login", url |-> url, username |-> username, password |-> password,
     discovery |-> NoDiscovery]
VerdantCmd_ServerDiscovered(discovery) ==
    [variant |-> "ServerDiscovered", url |-> NoBytes, username |-> NoBytes, password |-> 0,
     discovery |-> discovery]
NoCmd == VerdantCmd_ServerDiscovered(NoDiscovery)

Cmds ==
    {VerdantCmd_ServerDiscovered(d) : d \in Discoveries}
        \cup {VerdantCmd_Login(u, NameOf(1), p) : u \in Urls, p \in Passwords}

\* VerdantUiCmd; cmd is history: the number of the command that was being
\* handled when the event was sent
VerdantUiCmd_LoginResult(result, n) ==
    [variant |-> "LoginResult", result |-> result, discovery |-> NoDiscovery,
     url |-> NoBytes, token |-> NoBytes, cmd |-> n]
VerdantUiCmd_ServerDiscovered(discovery, n) ==
    [variant |-> "ServerDiscovered", result |-> LoginResult_Unauthorized,
     discovery |-> discovery, url |-> NoBytes, token |-> NoBytes, cmd |-> n]
VerdantUiCmd_LkToken(url, response, n) ==
    [variant |-> "LkToken", result |-> LoginResult_Unauthorized, discovery |-> NoDiscovery,
     url |-> url, token |-> response, cmd |-> n]

\* an HTTP request: its path, the server it goes to, the bearer token it carries
HttpRequest(path, url, bearer, n) == [path |-> path, url |-> url, bearer |-> bearer, cmd |-> n]

\* the access tokens a server may hand out: "t1", "t2"
Token(k) == <<116, 48 + k>>

\* the account the servers hold: user "a", registered with password 1
ApiRecord == register_user(TheServer, RngOfRegistration(1), NameOf(1), 1)

\* the replies to GET {url}/pubkey
PubKeyReplies ==
    {[status |-> "transport_error", parsed |-> FALSE, key_type |-> KeyType_Rsa,
      pubkey |-> NoBytes],
     [status |-> "ok", parsed |-> FALSE, key_type |-> KeyType_Rsa, pubkey |-> NoBytes],
     [status |-> "ok", parsed |-> TRUE, key_type |-> KeyType_Rsa,
      pubkey |-> base64_encode(GenuineDer)],
     [status |-> "non2xx", parsed |-> TRUE, key_type |-> KeyType_Rsa,
      pubkey |-> base64_encode(GenuineDer)],
     [status |-> "ok", parsed |-> TRUE, key_type |-> KeyType_Rsa,
      pubkey |-> base64_encode(AttackerDer)],
     [status |-> "ok", parsed |-> TRUE, key_type |-> KeyType_Ed448,
      pubkey |-> base64_encode(Ed448Der)],
     [status |-> "ok", parsed |-> TRUE, key_type |-> KeyType_Rsa,
      pubkey |-> base64_encode(Ed448Der)],
     [status |-> "ok", parsed |-> TRUE, key_type |-> KeyType_Ec,
      pubkey |-> base64_encode(EcDer)],
     [status |-> "ok", parsed |-> TRUE, key_type |-> KeyType_Ec,
      pubkey |-> base64_encode(GenuineDer)],
     [status |-> "ok", parsed |-> TRUE, key_type |-> KeyType_Rsa, pubkey |-> <<33>>]}

\* the replies to POST {url}/auth/api/login/; peer is the state the server
\* keeps for the login when it answers with its OPAQUE credential response
LoginReplies(login_request, n) ==
    LET credential_request == base64_decode(login_request.credentials).bytes
        started == Server_start_login(TheServer, RngOfServer(n), ApiRecord,
                                      credential_request, login_request.username)
    IN  {[status |-> "transport_error", parsed |-> FALSE,
          response |-> LoginResponse_AccessDenied, peer |-> NoServerLogin],
         [status |-> "non2xx", parsed |-> TRUE,
          response |-> LoginResponse_AccessDenied, peer |-> NoServerLogin],
         [status |-> "ok", parsed |-> FALSE,
          response |-> LoginResponse_AccessDenied, peer |-> NoServerLogin],
         [status |-> "ok", parsed |-> TRUE,
          response |-> LoginResponse_OTP(<<111>>), peer |-> NoServerLogin],
         [status |-> "ok", parsed |-> TRUE,
          response |-> LoginResponse_AccessDenied, peer |-> NoServerLogin],
         [status |-> "ok", parsed |-> TRUE,
          response |-> LoginResponse_PAKE(<<n>>, started.message), peer |-> started.state]}

\* the replies to POST {url}/auth/api/login/finalize: transport and parse
\* failures, the answer of a server that follows the protocol, a refusal, and
\* completions made without the session key
CompletionReplies(peer, login_request, initial_resp, upload) ==
    LET finished == Server_finish_login(TheServer, peer, upload.upload)
        transcript == compute_transcript(login_request, initial_resp)
        accepted == finished.ok
                    /\ LoginUpload_verify(upload, finished.key, login_request, initial_resp)
        Ok(completion) == [status |-> "ok", parsed |-> TRUE, completion |-> completion]
    IN  {[status |-> "transport_error", parsed |-> FALSE, completion |-> NoCompletion],
         [status |-> "non2xx", parsed |-> TRUE, completion |-> NoCompletion],
         [status |-> "ok", parsed |-> FALSE, completion |-> NoCompletion],
         Ok(LoginCompletion_unauthorized),
         Ok([result |-> LoginResult_Success(Token(2)),
             server_tag |-> LoginCompletion_unauthorized.server_tag]),
         Ok([result |-> LoginResult_Success(Token(2)), server_tag |-> upload.client_tag])}
        \cup (IF accepted
              THEN {Ok(LoginCompletion_new(LoginResult_Success(Token(1)), finished.key,
                                           transcript)),
                    Ok(LoginCompletion_new(LoginResult_Success(Token(2)), finished.key,
                                           transcript)),
                    Ok(LoginCompletion_new(LoginResult_PasswordReset, finished.key,
                                           transcript))}
              ELSE {})

\* the replies to GET {url}/rpc/token
TokenReplies(n) ==
    {[status |-> "transport_error", parsed |-> FALSE, body |-> NoBytes],
     [status |-> "ok", parsed |-> FALSE, body |-> NoBytes],
     [status |-> "ok", parsed |-> TRUE, body |-> <<n>>],
     [status |-> "non2xx", parsed |-> TRUE, body |-> <<n>>]}

\* APIClient::get_livekit_token up to its request: without an access token it
\* returns Unauthorized, with one it sends GET {url}/rpc/token with the token
\* as Bearer credential
get_livekit_token_unguarded(self, n) ==
    [ok |-> TRUE, err |-> "",
     request |-> HttpRequest("/rpc/token", self.url, self.access_token, n)]

get_livekit_token_request(self, n) ==
    IF self.access_token = NoBytes
    THEN [ok |-> FALSE, err |-> "Unauthorized",
          request |-> HttpRequest("", NoBytes, NoBytes, n)]
    ELSE [ok |-> TRUE, err |-> "",
          request |-> HttpRequest("/rpc/token", self.url, self.access_token, n)]

\* APIClient::get_livekit_token after its reply: the status is not looked at
get_livekit_token(self, reply) ==
    IF reply.status = "transport_error" \/ ~reply.parsed
    THEN [ok |-> FALSE, err |-> "Http", body |-> NoBytes]
    ELSE [ok |-> TRUE, err |-> "", body |-> reply.body]

\* the task between two commands; n counts the commands it has received, status
\* is the HTTP status of the last reply it was handed
IdleSvc(n) ==
    [pc |-> "recv", n |-> n, cmd |-> NoCmd,
     opaque_client |-> Client_new(0), client_login |-> NoClientLogin,
     login_request |-> NoLoginRequest, initial_resp |-> LoginResponse_AccessDenied,
     key |-> NoBytes, upload |-> NoUpload, final_resp |-> NoCompletion,
     outcome |-> "none", err |-> "", lk_err |-> "", peer |-> NoServerLogin,
     status |-> "none"]

ApiInit ==
    /\ cmd_rx = <<>>
    /\ ui_rx = <<>>
    /\ clients = [u \in Urls |-> NoClient]
    /\ svc = IdleSvc(0)
    /\ http = <<>>
    /\ sent = 0

\* VerdantService::login / tx().send: a send on the channel of a task that has
\* ended fails and queues nothing
UiSend(cmd) ==
    /\ sent < MaxCmds
    /\ sent' = sent + 1
    /\ cmd_rx' = IF svc.pc = "panicked" THEN cmd_rx ELSE Append(cmd_rx, cmd)
    /\ UNCHANGED <<ui_rx, clients, svc, http, protoVars, tagVars, extVars, moreVars>>

\* ServerDiscovered received: without a first URL the unwrap panics, else
\* from_discovery sends GET {url}/pubkey
RecvServerDiscovered ==
    /\ svc.pc = "recv"
    /\ cmd_rx /= <<>>
    /\ Head(cmd_rx).variant = "ServerDiscovered"
    /\ LET event == Head(cmd_rx)
           n == svc.n + 1
       IN  /\ cmd_rx' = Tail(cmd_rx)
           /\ IF Len(event.discovery.urls) = 0
              THEN /\ svc' = [IdleSvc(n) EXCEPT !.pc = "panicked", !.cmd = event,
                                                !.err = "unwrap on None"]
                   /\ http' = http
              ELSE /\ svc' = [IdleSvc(n) EXCEPT !.pc = "await_pubkey", !.cmd = event]
                   /\ http' = Append(http, HttpRequest("/pubkey", FirstUrl(event.discovery),
                                                       NoBytes, n))
    /\ UNCHANGED <<ui_rx, clients, sent, protoVars, tagVars, extVars, moreVars>>

\* a handler whose new client inherits the token of the client it replaces
PubkeyReply_keep_token(reply) ==
    /\ svc.pc = "await_pubkey"
    /\ LET discovery == svc.cmd.discovery
           r == from_discovery(discovery, reply)
       IN  IF r.ok
           THEN /\ clients' = [clients EXCEPT ![FirstUrl(discovery)] =
                                  [r.client EXCEPT !.access_token =
                                      clients[FirstUrl(discovery)].access_token]]
                /\ ui_rx' = Append(ui_rx, VerdantUiCmd_ServerDiscovered(discovery, svc.n))
                /\ svc' = [svc EXCEPT !.pc = "recv", !.status = reply.status]
           ELSE /\ svc' = [svc EXCEPT !.pc = "panicked", !.err = r.err,
                                      !.status = reply.status]
                /\ UNCHANGED <<clients, ui_rx>>
    /\ UNCHANGED <<cmd_rx, http, sent, protoVars, tagVars, extVars, moreVars>>

\* a handler that tells the UI before the client is in the map
PubkeyReply_event_first(reply) ==
    /\ svc.pc = "await_pubkey"
    /\ LET discovery == svc.cmd.discovery
           r == from_discovery(discovery, reply)
       IN  /\ ui_rx' = Append(ui_rx, VerdantUiCmd_ServerDiscovered(discovery, svc.n))
           /\ IF r.ok
              THEN /\ clients' = [clients EXCEPT ![FirstUrl(discovery)] = r.client]
                   /\ svc' = [svc EXCEPT !.pc = "recv", !.status = reply.status]
              ELSE /\ svc' = [svc EXCEPT !.pc = "panicked", !.err = r.err,
                                         !.status = reply.status]
                   /\ clients' = clients
    /\ UNCHANGED <<cmd_rx, http, sent, protoVars, tagVars, extVars, moreVars>>

\* the reply to GET /pubkey: from_discovery returns, an error panics in the
\* unwrap, a client is inserted and the UI is told
PubkeyReply(reply) ==
    /\ svc.pc = "await_pubkey"
    /\ LET discovery == svc.cmd.discovery
           r == from_discovery(discovery, reply)
       IN  IF r.ok
           THEN /\ clients' = [clients EXCEPT ![FirstUrl(discovery)] = r.client]
                /\ ui_rx' = Append(ui_rx, VerdantUiCmd_ServerDiscovered(discovery, svc.n))
                /\ svc' = [svc EXCEPT !.pc = "recv", !.status = reply.status]
           ELSE /\ svc' = [svc EXCEPT !.pc = "panicked", !.err = r.err,
                                      !.status = reply.status]
                /\ UNCHANGED <<clients, ui_rx>>
    /\ UNCHANGED <<cmd_rx, http, sent, protoVars, tagVars, extVars, moreVars>>

\* what verdant_service does once client.login has returned: the LoginResult
\* event, then get_livekit_token, which sends its request when a token is held
AfterLogin(state, client, returned) ==
    LET url == state.cmd.url
        result == IF returned.kind = "ok" THEN returned.result ELSE LoginResult_Unauthorized
        done == [state EXCEPT !.outcome = returned.kind, !.err = returned.err]
    IN  /\ clients' = [clients EXCEPT ![url] = client]
        /\ ui_rx' = Append(ui_rx, VerdantUiCmd_LoginResult(result, state.n))
        /\ LET call == get_livekit_token_request(client, state.n)
           IN  IF call.ok
               THEN /\ svc' = [done EXCEPT !.pc = "await_token"]
                    /\ http' = Append(http, call.request)
               ELSE /\ svc' = [done EXCEPT !.pc = "recv", !.lk_err = call.err]
                    /\ http' = http

\* a consumer that takes the next Login while a token fetch is outstanding
RecvLogin_while_awaiting ==
    /\ svc.pc \in {"recv", "await_token"}
    /\ cmd_rx /= <<>>
    /\ Head(cmd_rx).variant = "Login"
    /\ LET request == Head(cmd_rx)
           n == svc.n + 1
           started == login_start(request.username, request.password, RngOfClient(n))
       IN  /\ cmd_rx' = Tail(cmd_rx)
           /\ IF clients[request.url].present
              THEN /\ svc' = [IdleSvc(n) EXCEPT !.pc = "await_login_response",
                                                !.cmd = request,
                                                !.opaque_client = started.opaque_client,
                                                !.client_login = started.client_login,
                                                !.login_request = started.login_request]
                   /\ http' = Append(http, HttpRequest("/auth/api/login/", request.url,
                                                       NoBytes, n))
                   /\ ui_rx' = ui_rx
              ELSE /\ svc' = [IdleSvc(n) EXCEPT !.cmd = request]
                   /\ http' = http
                   /\ ui_rx' = Append(ui_rx, VerdantUiCmd_LoginResult(
                                                LoginResult_UnknownServer(request.url), n))
    /\ UNCHANGED <<clients, sent, protoVars, tagVars, extVars, moreVars>>

\* a handler that drops a Login for an unknown URL without telling the UI
RecvLogin_silent ==
    /\ svc.pc = "recv"
    /\ cmd_rx /= <<>>
    /\ Head(cmd_rx).variant = "Login"
    /\ LET request == Head(cmd_rx)
           n == svc.n + 1
           started == login_start(request.username, request.password, RngOfClient(n))
       IN  /\ cmd_rx' = Tail(cmd_rx)
           /\ IF clients[request.url].present
              THEN /\ svc' = [IdleSvc(n) EXCEPT !.pc = "await_login_response",
                                                !.cmd = request,
                                                !.opaque_client = started.opaque_client,
                                                !.client_login = started.client_login,
                                                !.login_request = started.login_request]
                   /\ http' = Append(http, HttpRequest("/auth/api/login/", request.url,
                                                       NoBytes, n))
              ELSE /\ svc' = [IdleSvc(n) EXCEPT !.cmd = request]
                   /\ http' = http
           /\ ui_rx' = ui_rx
    /\ UNCHANGED <<clients, sent, protoVars, tagVars, extVars, moreVars>>

\* Login received: for a known URL login starts and posts the LoginRequest,
\* for any other the UI gets UnknownServer
RecvLogin ==
    /\ svc.pc = "recv"
    /\ cmd_rx /= <<>>
    /\ Head(cmd_rx).variant = "Login"
    /\ LET request == Head(cmd_rx)
           n == svc.n + 1
           started == login_start(request.username, request.password, RngOfClient(n))
       IN  /\ cmd_rx' = Tail(cmd_rx)
           /\ IF clients[request.url].present
              THEN /\ svc' = [IdleSvc(n) EXCEPT !.pc = "await_login_response",
                                                !.cmd = request,
                                                !.opaque_client = started.opaque_client,
                                                !.client_login = started.client_login,
                                                !.login_request = started.login_request]
                   /\ http' = Append(http, HttpRequest("/auth/api/login/", request.url,
                                                       NoBytes, n))
                   /\ ui_rx' = ui_rx
              ELSE /\ svc' = [IdleSvc(n) EXCEPT !.cmd = request]
                   /\ http' = http
                   /\ ui_rx' = Append(ui_rx, VerdantUiCmd_LoginResult(
                                                LoginResult_UnknownServer(request.url), n))
    /\ UNCHANGED <<clients, sent, protoVars, tagVars, extVars, moreVars>>

\* the reply to POST /auth/api/login/
LoginReply ==
    /\ svc.pc = "await_login_response"
    /\ \E reply \in LoginReplies(svc.login_request, svc.n) :
       LET client == clients[svc.cmd.url]
           out == login_on_response(client, svc.opaque_client, svc.client_login,
                                    svc.login_request, reply)
           state == IF reply.status = "ok" /\ reply.parsed
                    THEN [svc EXCEPT !.initial_resp = reply.response, !.peer = reply.peer,
                                     !.status = reply.status]
                    ELSE [svc EXCEPT !.status = reply.status]
       IN  IF out.kind = "continue"
           THEN /\ svc' = [state EXCEPT !.pc = "await_completion", !.key = out.key,
                                        !.upload = out.upload]
                /\ http' = Append(http, HttpRequest("/auth/api/login/finalize", client.url,
                                                    NoBytes, svc.n))
                /\ UNCHANGED <<clients, ui_rx>>
           ELSE AfterLogin(state, client, out)
    /\ UNCHANGED <<cmd_rx, sent, protoVars, tagVars, extVars, moreVars>>

\* the reply to POST /auth/api/login/finalize
CompletionReply ==
    /\ svc.pc = "await_completion"
    /\ \E reply \in CompletionReplies(svc.peer, svc.login_request, svc.initial_resp,
                                       svc.upload) :
       LET client == clients[svc.cmd.url]
           out == login_on_completion(client, svc.key, svc.login_request,
                                      svc.initial_resp, reply)
           state == IF reply.status = "ok" /\ reply.parsed
                    THEN [svc EXCEPT !.final_resp = reply.completion,
                                     !.status = reply.status]
                    ELSE [svc EXCEPT !.status = reply.status]
       IN  IF out.kind = "panic"
           THEN /\ svc' = [state EXCEPT !.pc = "panicked", !.outcome = "panic",
                                        !.err = out.err]
                /\ UNCHANGED <<clients, ui_rx, http>>
           ELSE AfterLogin(state, [client EXCEPT !.access_token = out.access_token], out)
    /\ UNCHANGED <<cmd_rx, sent, protoVars, tagVars, extVars, moreVars>>

\* the reply to GET /rpc/token
TokenReply ==
    /\ svc.pc = "await_token"
    /\ \E reply \in TokenReplies(svc.n) :
       LET r == get_livekit_token(clients[svc.cmd.url], reply)
       IN  /\ ui_rx' = IF r.ok
                       THEN Append(ui_rx, VerdantUiCmd_LkToken(svc.cmd.url, r.body, svc.n))
                       ELSE ui_rx
           /\ svc' = [svc EXCEPT !.pc = "recv", !.err = r.err, !.lk_err = r.err,
                                 !.status = reply.status]
    /\ UNCHANGED <<cmd_rx, clients, http, sent, protoVars, tagVars, extVars, moreVars>>

ApiNext ==
    \/ \E cmd \in Cmds : UiSend(cmd)
    \/ RecvServerDiscovered
    \/ \E reply \in PubKeyReplies : PubkeyReply(reply)
    \/ RecvLogin
    \/ LoginReply
    \/ CompletionReply
    \/ TokenReply

----------------------------------------------------------------------------
(* The discovery task of VerdantService::new and the commands it pushes *)

DiscInit == discoverer = [pc |-> "running", known |-> <<>>]

\* what keycast hands the callback: a Discovery, or an error
DiscoveryResults ==
    {[ok |-> TRUE, discovery |-> d] : d \in Discoveries}
        \cup {[ok |-> FALSE, discovery |-> NoDiscovery]}

Contains(vec, x) == \E i \in 1..Len(vec) : vec[i] = x

\* the callback given to Beacon::discover: unwrap, then push the discovery
\* unless known holds it already; a send to an ended orchestrator fails
DiscoveryCallback(result) ==
    /\ discoverer.pc = "running"
    /\ IF ~result.ok
       THEN /\ discoverer' = [discoverer EXCEPT !.pc = "panicked"]
            /\ UNCHANGED <<cmd_rx, sent>>
       ELSE IF Contains(discoverer.known, result.discovery)
       THEN UNCHANGED <<discoverer, cmd_rx, sent>>
       ELSE /\ sent < MaxCmds
            /\ sent' = sent + 1
            /\ discoverer' = [discoverer EXCEPT !.known = Append(@, result.discovery)]
            /\ cmd_rx' = IF svc.pc = "panicked" THEN cmd_rx
                         ELSE Append(cmd_rx, VerdantCmd_ServerDiscovered(result.discovery))
    /\ UNCHANGED <<ui_rx, clients, svc, http, protoVars, tagVars, srvVars, wireVars, moreVars>>

DiscNext ==
    \/ \E result \in DiscoveryResults : DiscoveryCallback(result)
    \/ \E d \in Discoveries : UiSend(VerdantCmd_ServerDiscovered(d))
    \/ RecvServerDiscovered
    \/ \E reply \in PubKeyReplies : PubkeyReply(reply)

----------------------------------------------------------------------------
(* Logins of one user running side by side against one server.  The client  *)
(* side is APIClient::login; the server side is the pair of handlers behind *)
(* POST /auth/api/login/ and POST /auth/api/login/finalize, which keep the  *)
(* ServerLogin of every login that was started in a map keyed by the        *)
(* session id they chose, and which anyone may call with any LoginUpload.   *)

MaxSessions == 2
Sessions == 1 .. MaxSessions

\* the session id (Uuid) the server chooses for its k-th login; Uuid_of(0) is
\* an id the server never chose
Uuid_of(k) == <<k>>

NoPending == [id \in {} |-> 0]

IdleSession ==
    [pc |-> "idle", opaque_client |-> Client_new(0), client_login |-> NoClientLogin,
     login_request |-> NoLoginRequest, initial_resp |-> LoginResponse_AccessDenied,
     key |-> NoBytes, upload |-> NoUpload, final_resp |-> NoCompletion,
     concurrent |-> {}]

NoFinalize ==
    [handled |-> FALSE, upload |-> NoUpload, completion |-> NoCompletion,
     found |-> FALSE, untouched |-> TRUE, closed |-> {}]

SrvInit ==
    /\ sess = [i \in Sessions |-> IdleSession]
    /\ pending = NoPending
    /\ fin = NoFinalize

\* the handler of POST /auth/api/login/: Server::start_login on the account's
\* record, the ServerLogin kept under a fresh session id, PAKE(id, response)
handle_login(map, login_request, c, id) ==
    LET credential_request == base64_decode(login_request.credentials).bytes
        started == Server_start_login(TheServer, c, ApiRecord, credential_request,
                                      login_request.username)
        response == LoginResponse_PAKE(id, started.message)
        entry == [state |-> started.state, request |-> login_request,
                  response |-> response]
    IN  [pending |-> [k \in DOMAIN map \cup {id} |-> IF k = id THEN entry ELSE map[k]],
         response |-> response]

\* a finalize handler that leaves the login state in the map
handle_finalize_keep(map, upload) ==
    IF upload.id \notin DOMAIN map
    THEN [pending |-> map, completion |-> LoginCompletion_unauthorized]
    ELSE LET entry == map[upload.id]
             finished == Server_finish_login(TheServer, entry.state, upload.upload)
         IN  IF finished.ok /\ LoginUpload_verify(upload, finished.key, entry.request,
                                                  entry.response)
             THEN [pending |-> map,
                   completion |-> LoginCompletion_new(
                                      LoginResult_Success(Token(1)), finished.key,
                                      compute_transcript(entry.request, entry.response))]
             ELSE [pending |-> map, completion |-> LoginCompletion_unauthorized]

\* the handler of POST /auth/api/login/finalize: an id without a pending login
\* is refused; else the login state is taken out of the map, finish_login and
\* the client tag are checked, and the completion carries the server tag
handle_finalize(map, upload) ==
    IF upload.id \notin DOMAIN map
    THEN [pending |-> map, completion |-> LoginCompletion_unauthorized]
    ELSE LET entry == map[upload.id]
             rest == [k \in DOMAIN map \ {upload.id} |-> map[k]]
             finished == Server_finish_login(TheServer, entry.state, upload.upload)
         IN  IF finished.ok /\ LoginUpload_verify(upload, finished.key, entry.request,
                                                  entry.response)
             THEN [pending |-> rest,
                   completion |-> LoginCompletion_new(
                                      LoginResult_Success(Token(1)), finished.key,
                                      compute_transcript(entry.request, entry.response))]
             ELSE [pending |-> rest, completion |-> LoginCompletion_unauthorized]

\* the LoginUploads that may arrive: each upload a client has made, under its
\* own id or any other, and one that no client made
Junk == [id |-> Uuid_of(0), upload |-> <<7>>, client_tag |-> [i \in 1 .. TagSize |-> 7]]
Arriving ==
    LET made == {sess[i].upload : i \in {j \in Sessions : sess[j].pc \in {"uploaded", "done"}}}
    IN  {[id |-> Uuid_of(k), upload |-> u.upload, client_tag |-> u.client_tag] :
            k \in {0} \cup Sessions, u \in made \cup {Junk}}

\* the password of the account and a wrong one
SessionPasswords == {1, 2}

\* APIClient::login up to its first request; the sessions are numbered in the
\* order they start
SessionStart(i, p) ==
    /\ sess[i].pc = "idle"
    /\ i > 1 => sess[i - 1].pc /= "idle"
    /\ LET started == login_start(NameOf(1), p, RngOfClient(i))
       IN  sess' = [sess EXCEPT ![i] = [@ EXCEPT
                       !.pc = "started",
                       !.opaque_client = started.opaque_client,
                       !.client_login = started.client_login,
                       !.login_request = started.login_request]]
    /\ UNCHANGED <<pending, fin, protoVars, tagVars, apiVars, discVars, wireVars, moreVars>>

\* the server answers the LoginRequest of session i
SessionHandleLogin(i) ==
    /\ sess[i].pc = "started"
    /\ LET r == handle_login(pending, sess[i].login_request, RngOfServer(i), Uuid_of(i))
       IN  /\ pending' = r.pending
           /\ sess' = [sess EXCEPT ![i] = [@ EXCEPT
                          !.pc = "answered",
                          !.initial_resp = r.response,
                          !.concurrent = DOMAIN pending]]
    /\ UNCHANGED <<fin, protoVars, tagVars, apiVars, discVars, wireVars, moreVars>>

\* APIClient::login from the LoginResponse to the posting of its LoginUpload
SessionFinish(i) ==
    /\ sess[i].pc = "answered"
    /\ LET reply == [status |-> "ok", parsed |-> TRUE, response |-> sess[i].initial_resp,
                     peer |-> NoServerLogin]
           out == login_on_response(NoClient, sess[i].opaque_client, sess[i].client_login,
                                    sess[i].login_request, reply)
       IN  sess' = [sess EXCEPT ![i] =
                       IF out.kind = "continue"
                       THEN [@ EXCEPT !.pc = "uploaded", !.key = out.key,
                                      !.upload = out.upload]
                       ELSE [@ EXCEPT !.pc = "failed"]]
    /\ UNCHANGED <<pending, fin, protoVars, tagVars, apiVars, discVars, wireVars, moreVars>>

\* every login state other than the one under id is in both maps, unchanged
Untouched(map, map2, id) ==
    /\ DOMAIN map \ {id} = DOMAIN map2 \ {id}
    /\ \A k \in DOMAIN map \ {id} : map2[k] = map[k]

\* the server handles a LoginUpload; to is the session whose own request this
\* is and who receives the completion, or 0 for a request no client is
\* waiting on.  fin keeps history: whether the id was pending (found),
\* whether the other logins are as they were (untouched), and the ids a finalize has been handled for while they were
\* pending (closed).
SessionHandleFinalize ==
    /\ \E upload \in Arriving, to \in {0} \cup Sessions :
          /\ to /= 0 => sess[to].pc = "uploaded" /\ sess[to].upload = upload
          /\ LET r == handle_finalize(pending, upload)
             IN  /\ pending' = r.pending
                 /\ fin' = [handled |-> TRUE, upload |-> upload,
                            completion |-> r.completion,
                            found |-> upload.id \in DOMAIN pending,
                            untouched |-> Untouched(pending, r.pending, upload.id),
                            closed |-> fin.closed \cup (DOMAIN pending \cap {upload.id})]
                 /\ sess' = IF to = 0 THEN sess
                            ELSE [sess EXCEPT ![to] = [@ EXCEPT
                                     !.pc = "done", !.final_resp = r.completion]]
    /\ UNCHANGED <<protoVars, tagVars, apiVars, discVars, wireVars, moreVars>>

SrvNext ==
    \/ \E i \in Sessions, p \in SessionPasswords : SessionStart(i, p)
    \/ \E i \in Sessions : SessionHandleLogin(i)
    \/ \E i \in Sessions : SessionFinish(i)
    \/ SessionHandleFinalize

----------------------------------------------------------------------------
(* The wire encodings: LoginRequest and LoginResponse as serde_json text,   *)
(* and a login whose messages pass through them, as the test                *)
(* serialization_round_trip of src/auth/mod.rs drives it.  Text is a        *)
(* sequence of character codes.                                             *)

\* serde_json writes a string between quotes, with a backslash before each
\* quote (34) and backslash (92)
RECURSIVE JsonEscape(_)
JsonEscape(s) ==
    IF s = <<>> THEN <<>>
    ELSE (IF Head(s) \in {34, 92} THEN <<92, Head(s)>> ELSE <<Head(s)>>)
            \o JsonEscape(Tail(s))

JsonString(s) == <<34>> \o JsonEscape(s) \o <<34>>

JsonNone == [ok |-> FALSE, value |-> <<>>, rest |-> <<>>]

\* serde_json reads a string up to its closing quote: the index of that quote
\* for the text that starts at i, skipping escaped characters; 0 if there is
\* none or an escape is not one of \" and \\
RECURSIVE JsonClose(_, _)
JsonClose(b, i) ==
    IF i > Len(b) THEN 0
    ELSE IF b[i] = 34 THEN i
    ELSE IF b[i] = 92
    THEN IF i < Len(b) /\ b[i + 1] \in {34, 92} THEN JsonClose(b, i + 2) ELSE 0
    ELSE JsonClose(b, i + 1)

\* the characters of a string's text, each escape replaced by its character
RECURSIVE JsonUnescape(_)
JsonUnescape(s) ==
    IF s = <<>> THEN <<>>
    ELSE IF Head(s) = 92 THEN <<s[2]>> \o JsonUnescape(SubSeq(s, 3, Len(s)))
    ELSE <<Head(s)>> \o JsonUnescape(Tail(s))

\* the text `before` and then a string: the string's value and what follows
JsonField(b, before) ==
    LET start == Len(before) + 2
        close == JsonClose(b, start)
    IN  IF Len(b) > Len(before) /\ SubSeq(b, 1, Len(before)) = before
                                /\ b[Len(before) + 1] = 34 /\ close > 0
        THEN [ok |-> TRUE, value |-> JsonUnescape(SubSeq(b, start, close - 1)),
              rest |-> SubSeq(b, close + 1, Len(b))]
        ELSE JsonNone

\* #[derive(Serialize)] on LoginRequest: {"username":"..","credentials":".."}
LoginRequest_to_json(request) ==
    <<123, 34, 117, 115, 101, 114, 110, 97, 109, 101, 34, 58>>
        \o JsonString(request.username)
        \o <<44, 34, 99, 114, 101, 100, 101, 110, 116, 105, 97, 108, 115, 34, 58>>
        \o JsonString(request.credentials) \o <<125>>

\* #[derive(Deserialize)] on LoginRequest
LoginRequest_from_json(b) ==
    LET username == JsonField(b, <<123, 34, 117, 115, 101, 114, 110, 97, 109, 101, 34, 58>>)
        credentials ==
            JsonField(username.rest,
                      <<44, 34, 99, 114, 101, 100, 101, 110, 116, 105, 97, 108, 115, 34, 58>>)
    IN  IF username.ok /\ credentials.ok /\ credentials.rest = <<125>>
        THEN [ok |-> TRUE, value |-> [username |-> username.value,
                                      credentials |-> credentials.value]]
        ELSE [ok |-> FALSE, value |-> NoLoginRequest]

\* Uuid as text: two hexadecimal digits per byte
HexChar(n) == IF n < 10 THEN 48 + n ELSE 87 + n
HexValue(c) == IF c \in 48 .. 57 THEN c - 48 ELSE IF c \in 97 .. 102 THEN c - 87 ELSE 16
UuidString(id) ==
    [i \in 1 .. 2 * Len(id) |->
        HexChar(IF i % 2 = 1 THEN id[(i + 1) \div 2] \div 16 ELSE id[i \div 2] % 16)]
UuidParse(s) ==
    IF Len(s) % 2 = 0 /\ \A i \in 1 .. Len(s) : HexValue(s[i]) < 16
    THEN [ok |-> TRUE,
          id |-> [i \in 1 .. Len(s) \div 2 |->
                     16 * HexValue(s[2 * i - 1]) + HexValue(s[2 * i])]]
    ELSE [ok |-> FALSE, id |-> NoBytes]

\* #[derive(Serialize)] on LoginResponse: {"OTP":".."}, {"PAKE":["id","cred"]}
\* with the CredentialResponse in base64, or "AccessDenied"
LoginResponse_to_json(response) ==
    CASE response.variant = "OTP" ->
            <<123, 34, 79, 84, 80, 34, 58>> \o JsonString(response.text) \o <<125>>
      [] response.variant = "PAKE" ->
            <<123, 34, 80, 65, 75, 69, 34, 58, 91>> \o JsonString(UuidString(response.id))
                \o <<44>> \o JsonString(base64_encode(response.cred)) \o <<93, 125>>
      [] OTHER -> <<34, 65, 99, 99, 101, 115, 115, 68, 101, 110, 105, 101, 100, 34>>

\* #[derive(Deserialize)] on LoginResponse
LoginResponse_from_json(b) ==
    LET text == JsonField(b, <<123, 34, 79, 84, 80, 34, 58>>)
        id == JsonField(b, <<123, 34, 80, 65, 75, 69, 34, 58, 91>>)
        cred == JsonField(id.rest, <<44>>)
        Err == [ok |-> FALSE, value |-> LoginResponse_AccessDenied]
    IN  IF b = <<34, 65, 99, 99, 101, 115, 115, 68, 101, 110, 105, 101, 100, 34>>
        THEN [ok |-> TRUE, value |-> LoginResponse_AccessDenied]
        ELSE IF text.ok
        THEN IF text.rest = <<125>>
             THEN [ok |-> TRUE, value |-> LoginResponse_OTP(text.value)]
             ELSE Err
        ELSE IF id.ok /\ cred.ok /\ cred.rest = <<93, 125>>
                /\ UuidParse(id.value).ok /\ base64_decode(cred.value).ok
        THEN [ok |-> TRUE,
              value |-> LoginResponse_PAKE(UuidParse(id.value).id,
                                           base64_decode(cred.value).bytes)]
        ELSE Err

MaxWireLen == 2

\* user names and OTP texts: letters, quotes and backslashes
WireStrings ==
    UNION {[1 .. n -> {97, 34, 92}] : n \in 1 .. MaxWireLen}

IdleWire ==
    [pc |-> "idle", username |-> NoBytes, client_login |-> NoClientLogin,
     credential_request |-> NoBytes, request |-> NoLoginRequest,
     parsed_request |-> [ok |-> FALSE, value |-> NoLoginRequest],
     parsed_credential_request |-> [ok |-> FALSE, bytes |-> NoBytes],
     server_login |-> NoServerLogin, response |-> LoginResponse_AccessDenied,
     parsed_response |-> [ok |-> FALSE, value |-> LoginResponse_AccessDenied],
     client_key |-> NoBytes, client_finalization |-> NoBytes, server_key |-> NoBytes]

WireInit == wire = IdleWire

\* Client::new("password"), the password the account was registered with
WireClient == Client_new(1)

\* client.start_login() and LoginRequest::new; the name in the request is any
\* text, the account the server looks up is the registered one
WireStartLogin(username) ==
    /\ wire.pc = "idle"
    /\ LET started == Client_start_login(WireClient, RngOfClient(1))
       IN  wire' = [wire EXCEPT !.pc = "request",
                                !.username = username,
                                !.client_login = started.state,
                                !.credential_request = started.message,
                                !.request = LoginRequest_new(username, started.message)]
    /\ UNCHANGED <<protoVars, tagVars, apiVars, discVars, srvVars, moreVars>>

\* the request is written as JSON and read back, its credentials are decoded
WireRequestRoundTrip ==
    /\ wire.pc = "request"
    /\ LET parsed == LoginRequest_from_json(LoginRequest_to_json(wire.request))
       IN  wire' = [wire EXCEPT !.pc = "request_parsed",
                                !.parsed_request = parsed,
                                !.parsed_credential_request =
                                    base64_decode(parsed.value.credentials)]
    /\ UNCHANGED <<protoVars, tagVars, apiVars, discVars, srvVars, moreVars>>

\* server.start_login on the decoded request; the response is PAKE with a
\* fresh session id, or one of the other two variants
WireServerStart ==
    /\ wire.pc = "request_parsed"
    /\ wire.parsed_request.ok /\ wire.parsed_credential_request.ok
    /\ LET started == Server_start_login(TheServer, RngOfServer(1), ApiRecord,
                                         wire.parsed_credential_request.bytes,
                                         NameOf(1))
       IN  \E response \in {LoginResponse_PAKE(id, started.message) : id \in {<<1>>, <<171>>}}
                               \cup {LoginResponse_OTP(t) : t \in WireStrings}
                               \cup {LoginResponse_AccessDenied} :
              wire' = [wire EXCEPT !.pc = "response",
                                   !.server_login = started.state,
                                   !.response = response]
    /\ UNCHANGED <<protoVars, tagVars, apiVars, discVars, srvVars, moreVars>>

\* the response is written as JSON and read back
WireResponseRoundTrip ==
    /\ wire.pc = "response"
    /\ wire' = [wire EXCEPT !.pc = "response_parsed",
                            !.parsed_response =
                                LoginResponse_from_json(LoginResponse_to_json(wire.response))]
    /\ UNCHANGED <<protoVars, tagVars, apiVars, discVars, srvVars, moreVars>>

\* client.finish_login on the parsed response, then server.finish_login
WireFinish ==
    /\ wire.pc = "response_parsed"
    /\ wire.parsed_response.ok
    /\ wire.parsed_response.value.variant = "PAKE"
    /\ LET c == Client_finish_login(WireClient, wire.client_login,
                                    wire.parsed_response.value.cred)
           srv == Server_finish_login(TheServer, wire.server_login, c.fin)
       IN  wire' = [wire EXCEPT !.pc = IF c.ok /\ srv.ok THEN "done" ELSE "failed",
                                !.client_key = c.key,
                                !.client_finalization = c.fin,
                                !.server_key = IF c.ok THEN srv.key ELSE NoBytes]
    /\ UNCHANGED <<protoVars, tagVars, apiVars, discVars, srvVars, moreVars>>

WireNext ==
    \/ \E username \in WireStrings : WireStartLogin(username)
    \/ WireRequestRoundTrip
    \/ WireServerStart
    \/ WireResponseRoundTrip
    \/ WireFinish

----------------------------------------------------------------------------
(* The confirmation-tag functions on inputs drawn from bounded sets *)

MaxStrLen == 2
MaxKeys == 2

\* the strings "a", "aa", ...
Strings == {[i \in 1 .. n |-> 97] : n \in 1 .. MaxStrLen}
\* the session keys <<1>>, <<2>>, ...
Keys == {<<k>> : k \in 1 .. MaxKeys}
\* two session ids
Uuids == {<<1>>, <<2>>}

LoginRequests == [username : Strings, credentials : Strings]
LoginResponses ==
    {LoginResponse_OTP(t) : t \in Strings}
        \cup {LoginResponse_PAKE(id, c) : id \in Uuids, c \in Strings}
        \cup {LoginResponse_AccessDenied}
LoginResults ==
    {LoginResult_Success(<<116>>), LoginResult_PasswordReset, LoginResult_Unauthorized}

TagIdle ==
    [pc |-> "off", key |-> NoBytes, request |-> [username |-> NoBytes, credentials |-> NoBytes],
     response |-> LoginResponse_AccessDenied, result |-> LoginResult_Unauthorized,
     key2 |-> NoBytes, request2 |-> [username |-> NoBytes, credentials |-> NoBytes],
     response2 |-> LoginResponse_AccessDenied,
     upload |-> NoUpload, completion |-> NoCompletion, ok |-> FALSE,
     transcript |-> NoBytes, transcript2 |-> NoBytes,
     parsed |-> [ok |-> FALSE, transcript |-> NoBytes]]

TagInit ==
    \E k \in Keys, k2 \in Keys, rq \in LoginRequests, rq2 \in LoginRequests,
       rs \in LoginResponses, rs2 \in LoginResponses, res \in LoginResults :
        tag = [TagIdle EXCEPT !.pc = "inputs", !.key = k, !.request = rq, !.response = rs,
                              !.result = res, !.key2 = k2, !.request2 = rq2,
                              !.response2 = rs2]

\* the client builds its upload from (key, request, response)
TagNewUpload ==
    /\ tag.pc = "inputs"
    /\ tag' = [tag EXCEPT !.pc = "upload",
                          !.upload = LoginUpload_new(tag.response.id, <<3>>, tag.key,
                                                     tag.request, tag.response)]
    /\ UNCHANGED <<protoVars, apiVars, extVars, moreVars>>

\* the server verifies it against (key2, request2, response2)
TagVerifyUpload ==
    /\ tag.pc = "upload"
    /\ tag' = [tag EXCEPT !.pc = "upload_verified",
                          !.ok = LoginUpload_verify(tag.upload, tag.key2, tag.request2,
                                                    tag.response2)]
    /\ UNCHANGED <<protoVars, apiVars, extVars, moreVars>>

\* the server builds its completion from (key, request, response)
TagNewCompletion ==
    /\ tag.pc = "inputs"
    /\ tag' = [tag EXCEPT !.pc = "completion",
                          !.completion = LoginCompletion_new(tag.result, tag.key,
                                    compute_transcript(tag.request, tag.response))]
    /\ UNCHANGED <<protoVars, apiVars, extVars, moreVars>>

\* the client verifies it against (key2, request2, response2)
TagVerifyCompletion ==
    /\ tag.pc = "completion"
    /\ tag' = [tag EXCEPT !.pc = "completion_verified",
                          !.ok = LoginCompletion_verify(tag.completion, tag.key2,
                                                        tag.request2, tag.response2)]
    /\ UNCHANGED <<protoVars, apiVars, extVars, moreVars>>

\* the client's tag is sent back to the client as a server tag
TagReflectUpload ==
    /\ tag.pc = "upload"
    /\ LET reflected == [result |-> tag.result, server_tag |-> tag.upload.client_tag]
       IN  tag' = [tag EXCEPT !.pc = "upload_reflected",
                              !.completion = reflected,
                              !.ok = LoginCompletion_verify(reflected, tag.key, tag.request,
                                                            tag.response)]
    /\ UNCHANGED <<protoVars, apiVars, extVars, moreVars>>

\* the server's tag is sent back to the server as a client tag
TagReflectCompletion ==
    /\ tag.pc = "completion"
    /\ LET reflected == [id |-> tag.response.id, upload |-> <<3>>,
                         client_tag |-> tag.completion.server_tag]
       IN  tag' = [tag EXCEPT !.pc = "completion_reflected",
                              !.upload = reflected,
                              !.ok = LoginUpload_verify_transcript(reflected, tag.key,
                                        compute_transcript(tag.request, tag.response))]
    /\ UNCHANGED <<protoVars, apiVars, extVars, moreVars>>

\* both transcripts are computed, and the first is written as a string and
\* parsed back
TagTranscript ==
    /\ tag.pc = "inputs"
    /\ LET t == compute_transcript(tag.request, tag.response)
       IN  tag' = [tag EXCEPT !.pc = "transcript",
                              !.transcript = t,
                              !.transcript2 = compute_transcript(tag.request2,
                                                                 tag.response2),
                              !.parsed = Transcript_from_str(Transcript_to_string(t))]
    /\ UNCHANGED <<protoVars, apiVars, extVars, moreVars>>

TagNext ==
    \/ TagTranscript
    \/ TagNewUpload
    \/ TagVerifyUpload
    \/ TagNewCompletion
    \/ TagVerifyCompletion
    \/ TagReflectUpload
    \/ TagReflectCompletion

----------------------------------------------------------------------------
(* The C interface (native.rs).  A pointer is 0 (null) or the index of
   the allocation it points to; the caller passes only null or live
   pointers, as the safety comments of the functions require. *)

MaxRuntimes == 2
MaxHandles == 2

Null == 0

\* no call made yet
NoCall == [fn |-> "none", rt_ptr |-> Null, h |-> Null, ret |-> 0, created |-> "not called"]

NativeInit == native = [runtimes |-> <<>>, handles |-> <<>>, call |-> NoCall]

LivePtrs(boxes) == {k \in 1 .. Len(boxes) : boxes[k].live}

\* VerdantService::new spawns the tasks and returns Ok(Self) on every path
VerdantService_new(runtime, discovery) ==
    [ok |-> TRUE,
     service |-> [live |-> TRUE, runtime |-> runtime, discovery |-> discovery]]

\* Runtime::new() succeeds or fails with the operating system's resources
verdant_runtime_new(ok) ==
    /\ Len(native.runtimes) < MaxRuntimes
    /\ native' = [native EXCEPT
                    !.runtimes = IF ok THEN Append(@, [live |-> TRUE]) ELSE @,
                    !.call = [NoCall EXCEPT !.fn = "verdant_runtime_new",
                                            !.ret = IF ok THEN Len(native.runtimes) + 1
                                                    ELSE Null]]
    /\ UNCHANGED <<protoVars, tagVars, apiVars, extVars, ctVars>>

\* the constructor: a null rt_ptr returns null before VerdantService::new
verdant_service_new(start_discovery) ==
    \E rt_ptr \in {Null} \cup LivePtrs(native.runtimes) :
        /\ Len(native.handles) < MaxHandles
        /\ IF rt_ptr = Null
           THEN native' = [native EXCEPT
                             !.call = [NoCall EXCEPT !.fn = "verdant_service_new",
                                                     !.rt_ptr = rt_ptr,
                                                     !.ret = Null]]
           ELSE LET r == VerdantService_new(rt_ptr, start_discovery # 0)
                IN  native' = [native EXCEPT
                                 !.handles = IF r.ok THEN Append(@, r.service) ELSE @,
                                 !.call = [NoCall EXCEPT
                                             !.fn = "verdant_service_new",
                                             !.rt_ptr = rt_ptr,
                                             !.created = IF r.ok THEN "Ok" ELSE "Err",
                                             !.ret = IF r.ok
                                                     THEN Len(native.handles) + 1
                                                     ELSE Null]]
        /\ UNCHANGED <<protoVars, tagVars, apiVars, extVars, ctVars>>

verdant_service_free ==
    \E h \in {Null} \cup LivePtrs(native.handles) :
        /\ native' = [native EXCEPT
                        !.handles = IF h = Null THEN @
                                    ELSE [@ EXCEPT ![h].live = FALSE],
                        !.call = [NoCall EXCEPT !.fn = "verdant_service_free",
                                                !.h = h]]
        /\ UNCHANGED <<protoVars, tagVars, apiVars, extVars, ctVars>>

\* -1 for a null argument, 0 when the command is sent, -2 when the
\* orchestrator task has ended and dropped the receiver
verdant_service_login(args_null, open) ==
    \E h \in {Null} \cup LivePtrs(native.handles) :
        /\ native' = [native EXCEPT
                        !.call = [NoCall EXCEPT
                                    !.fn = "verdant_service_login",
                                    !.h = h,
                                    !.ret = IF h = Null \/ args_null THEN 0 - 1
                                            ELSE IF open THEN 0 ELSE 0 - 2]]
        /\ UNCHANGED <<protoVars, tagVars, apiVars, extVars, ctVars>>

NativeNext ==
    \/ \E ok \in BOOLEAN : verdant_runtime_new(ok)
    \/ \E start_discovery \in {0, 1} : verdant_service_new(start_discovery)
    \/ verdant_service_free
    \/ \E args_null \in BOOLEAN, open \in BOOLEAN : verdant_service_login(args_null, open)

----------------------------------------------------------------------------
(* The cost of the tag comparisons (challenge.rs 105 and 184).  Both are
   `expected == self.tag` on [u8; 32]: the language fixes the result and
   leaves the number of bytes examined to the build, which either stops
   at the first differing byte or examines the whole array. *)

Differing(a, b) == {i \in 1 .. Len(a) : i > Len(b) \/ a[i] # b[i]}

\* bytes examined by `a == b` under the build's strategy
array_eq_examined(a, b, early) ==
    IF early /\ Differing(a, b) # {}
    THEN CHOOSE i \in Differing(a, b) : \A j \in Differing(a, b) : i <= j
    ELSE Len(a)

LoginUpload_verify_transcript_examined(self, session_key, transcript, early) ==
    LET k_confirm == derive_k_confirm(session_key)
        data == transcript \o LabelClient
        expected == compute_hmac(k_confirm, data)
    IN  array_eq_examined(expected, self.client_tag, early)

LoginCompletion_transcript_verify_examined(self, session_key, transcript, early) ==
    LET k_confirm == derive_k_confirm(session_key)
        data == transcript \o LabelServer
        expected == compute_hmac(k_confirm, data)
    IN  array_eq_examined(expected, self.server_tag, early)

\* the tag with the byte at position p replaced
Forged(t, p) == [t EXCEPT ![p] = (@ + 1) % 256]

CtRequest == [username |-> <<97>>, credentials |-> <<97>>]
CtResponse == LoginResponse_PAKE(<<1>>, <<97>>)
CtTranscript == compute_transcript(CtRequest, CtResponse)

CtIdle ==
    [pc |-> "idle", fn |-> "none", key |-> NoBytes, early |-> FALSE, pos1 |-> 0, pos2 |-> 0,
     equal1 |-> FALSE, equal2 |-> FALSE, examined1 |-> 0, examined2 |-> 0]

CtInit == ct = CtIdle

\* the server verifies two forged uploads of one session
CtVerifyUpload(early) ==
    ct.pc = "idle" /\ \E k \in Keys :
        LET good == LoginUpload_new(<<1>>, <<3>>, k, CtRequest, CtResponse)
        IN  \E p1 \in 1 .. Len(good.client_tag), p2 \in 1 .. Len(good.client_tag) :
                LET u1 == [good EXCEPT !.client_tag = Forged(@, p1)]
                    u2 == [good EXCEPT !.client_tag = Forged(@, p2)]
                IN  /\ ct' = [pc |-> "compared", fn |-> "LoginUpload::verify_transcript",
                              key |-> k, early |-> early, pos1 |-> p1, pos2 |-> p2,
                              equal1 |-> LoginUpload_verify_transcript(u1, k, CtTranscript),
                              equal2 |-> LoginUpload_verify_transcript(u2, k, CtTranscript),
                              examined1 |-> LoginUpload_verify_transcript_examined(
                                                u1, k, CtTranscript, early),
                              examined2 |-> LoginUpload_verify_transcript_examined(
                                                u2, k, CtTranscript, early)]
                    /\ UNCHANGED <<protoVars, tagVars, apiVars, extVars, nativeVars>>

\* the client verifies two forged completions of one session
CtVerifyCompletion(early) ==
    ct.pc = "idle" /\ \E k \in Keys :
        LET good == LoginCompletion_new(LoginResult_Success(<<116>>), k, CtTranscript)
        IN  \E p1 \in 1 .. Len(good.server_tag), p2 \in 1 .. Len(good.server_tag) :
                LET c1 == [good EXCEPT !.server_tag = Forged(@, p1)]
                    c2 == [good EXCEPT !.server_tag = Forged(@, p2)]
                IN  /\ ct' = [pc |-> "compared",
                              fn |-> "LoginCompletion::transcript_verify",
                              key |-> k, early |-> early, pos1 |-> p1, pos2 |-> p2,
                              equal1 |-> LoginCompletion_transcript_verify(c1, k,
                                                                           CtTranscript),
                              equal2 |-> LoginCompletion_transcript_verify(c2, k,
                                                                           CtTranscript),
                              examined1 |-> LoginCompletion_transcript_verify_examined(
                                                c1, k, CtTranscript, early),
                              examined2 |-> LoginCompletion_transcript_verify_examined(
                                                c2, k, CtTranscript, early)]
                    /\ UNCHANGED <<protoVars, tagVars, apiVars, extVars, nativeVars>>

CtNext ==
    \/ \E early \in BOOLEAN : CtVerifyUpload(early)
    \/ \E early \in BOOLEAN : CtVerifyCompletion(early)

----------------------------------------------------------------------------
(* Specifications *)

ExtInit == DiscInit /\ SrvInit /\ WireInit /\ NativeInit /\ CtInit

Init == ProtoInit /\ tag = TagIdle /\ ApiInit /\ ExtInit

Next == ProtoNext

Spec == Init /\ [][Next]_vars

InitTag == ProtoInit /\ TagInit /\ ApiInit /\ ExtInit

NextTag == TagNext

SpecTag == InitTag /\ [][NextTag]_vars

InitApi == ProtoInit /\ tag = TagIdle /\ ApiInit /\ ExtInit

NextApi == ApiNext

SpecApi == InitApi /\ [][NextApi]_vars

\* one login attempt in which Server::start_login is given any user's record
\* together with any username
BindNext ==
    \/ \E u \in Users, p \in Passwords : RegisterUser(u, p)
    \/ \E p \in Passwords : ClientStartLogin(1, p)
    \/ \E u \in Users, n \in Users : ServerStartLogin(1, u, n)
    \/ ClientFinishLogin(1)
    \/ ServerFinishLogin(1)

SpecBind == Init /\ [][BindNext]_vars

\* the steps of the orchestrator task: tokio resumes a task that can run, and
\* every HTTP request ends with a reply or a transport error
OrchestratorStep ==
    \/ RecvServerDiscovered
    \/ \E reply \in PubKeyReplies : PubkeyReply(reply)
    \/ RecvLogin
    \/ LoginReply
    \/ CompletionReply
    \/ TokenReply

SpecApiLive == InitApi /\ [][NextApi]_vars /\ WF_vars(OrchestratorStep)

InitDisc == ProtoInit /\ tag = TagIdle /\ ApiInit /\ ExtInit

NextDisc == DiscNext

SpecDisc == InitDisc /\ [][NextDisc]_vars

InitSrv == ProtoInit /\ tag = TagIdle /\ ApiInit /\ ExtInit

NextSrv == SrvNext

SpecSrv == InitSrv /\ [][NextSrv]_vars

InitWire == ProtoInit /\ tag = TagIdle /\ ApiInit /\ ExtInit

NextWire == WireNext

SpecWire == InitWire /\ [][NextWire]_vars

InitNative == ProtoInit /\ tag = TagIdle /\ ApiInit /\ ExtInit

NextNative == NativeNext

SpecNative == InitNative /\ [][NextNative]_vars

InitCt == ProtoInit /\ tag = TagIdle /\ ApiInit /\ ExtInit

NextCt == CtNext

SpecCt == InitCt /\ [][NextCt]_vars


----------------------------------------------------------------------------
(* Claims *)

Succeeded(i) == login[i].pc = "server_finished"
ClientFinishRan(i) ==
    login[i].pc \in {"client_finished", "client_failed", "server_finished", "server_failed"}

\* C1: after register_user(u, p) and a login with the same u and p in which
\* all four steps succeed, the client's session key equals the server's.
C1_KeyAgreement ==
    \A i \in Attempts :
        (Succeeded(i) /\ login[i].client.password = regPw[login[i].user])
            => login[i].client_key = login[i].server_key

C1_Witness ==
    \E i \in Attempts :
        /\ Succeeded(i)
        /\ login[i].client.password = regPw[login[i].user]
        /\ login[i].uname = login[i].user
        /\ login[i].client_key /= NoBytes

\* C2: a login by a Client that holds a password other than the one the
\* record was registered with fails at Client::finish_login: no session key
\* and no CredentialFinalization are produced.
C2_WrongPasswordFails ==
    \A i \in Attempts :
        (ClientFinishRan(i) /\ login[i].client.password /= regPw[login[i].user])
            => /\ login[i].pc = "client_failed"
               /\ login[i].client_key = NoBytes
               /\ login[i].client_finalization = NoBytes

C2_Witness ==
    \E i \in Attempts :
        /\ login[i].pc = "client_failed"
        /\ regPw[login[i].user] /= 0
        /\ login[i].client.password /= regPw[login[i].user]

\* C3: two successful logins of the same user against the same record give
\* two different session keys, and in each the client's key is the server's.
C3_FreshKeys ==
    \A i, j \in Attempts :
        (i /= j /\ Succeeded(i) /\ Succeeded(j) /\ login[i].user = login[j].user)
            => /\ login[i].client_key /= login[j].client_key
               /\ login[i].server_key /= login[j].server_key
               /\ login[i].client_key = login[i].server_key

C3_Witness ==
    \E i, j \in Attempts :
        /\ i /= j /\ Succeeded(i) /\ Succeeded(j)
        /\ login[i].user = login[j].user
        /\ login[i].client.password = login[j].client.password

\* C4: successful logins of two distinct users, whatever their passwords,
\* give different session keys; each client's key is the server's key of
\* its own login and not of the other's.
C4_UserIsolation ==
    \A i, j \in Attempts :
        (i /= j /\ Succeeded(i) /\ Succeeded(j) /\ login[i].user /= login[j].user)
            => /\ login[i].client_key /= login[j].client_key
               /\ login[i].client_key = login[i].server_key
               /\ login[i].client_key /= login[j].server_key

C4_Witness ==
    \E i, j \in Attempts :
        /\ Succeeded(i) /\ Succeeded(j)
        /\ login[i].user /= login[j].user
        /\ regPw[login[i].user] = regPw[login[j].user]

SameInputs ==
    /\ tag.key2 = tag.key
    /\ tag.request2 = tag.request
    /\ tag.response2 = tag.response

\* C5: LoginUpload::verify(K', req', resp') on LoginUpload::new(.., K, req, resp)
\* is true exactly when K' = K, req' = req and resp' = resp.
C5_UploadVerifyIff ==
    tag.pc = "upload_verified" => (tag.ok <=> SameInputs)

\* an upload replayed against a response with another session id
C5_Witness ==
    /\ tag.pc = "upload_verified"
    /\ ~tag.ok
    /\ tag.key2 = tag.key
    /\ tag.request2 = tag.request
    /\ tag.response.variant = "PAKE"
    /\ tag.response2.variant = "PAKE"
    /\ tag.response2.id /= tag.response.id
    /\ tag.response2.cred = tag.response.cred

\* C6: LoginCompletion::verify(K', req', resp') on
\* LoginCompletion::new(result, K, compute_transcript(req, resp)) is true
\* exactly when K' = K, req' = req and resp' = resp, whatever the result.
C6_CompletionVerifyIff ==
    tag.pc = "completion_verified" => (tag.ok <=> SameInputs)

C6_Witness ==
    /\ tag.pc = "completion_verified"
    /\ tag.ok
    /\ tag.completion.result = LoginResult_Unauthorized

\* C7: under one session key and one transcript, a client_tag put in
\* server_tag fails LoginCompletion verification and a server_tag put in
\* client_tag fails LoginUpload verification.
C7_NoReflection ==
    tag.pc \in {"upload_reflected", "completion_reflected"} => ~tag.ok

C7_Witness ==
    /\ tag.pc = "upload_reflected"
    /\ tag.completion.server_tag = LoginUpload_new(tag.response.id, <<3>>, tag.key,
                                                   tag.request, tag.response).client_tag

\* the completion the current login received, if it received one
GotCompletion == svc.final_resp /= NoCompletion
CompletionVerifies ==
    LoginCompletion_verify(svc.final_resp, svc.key, svc.login_request, svc.initial_resp)

\* C8: whenever the base64 SHA-256 of the DER bytes served by GET /pubkey
\* differs from the hash of the discovery, from_discovery fails with
\* KeyHashMismatch and creates no APIClient: every client the orchestrator
\* holds (and so every server it can send a login request to) has a decoding
\* key whose hash is the hash of the discovery it was built from.
C8_KeyHashChecked ==
    \A u \in Urls :
        clients[u].present => KeyHash(clients[u].decoder.der) = clients[u].pubkey_hash

\* C9: access_token is set to a token only in the step that receives a
\* LoginCompletion whose server_tag verifies under the session key and the
\* transcript of the login in progress, and then to that completion's token;
\* a step that receives a completion whose server_tag does not verify leaves
\* access_token as it was and sends no LoginResult::Success.
C9_TokenOnlyAfterVerifiedTag ==
    [][\A u \in Urls :
          LET received == svc'.final_resp
              verified == LoginCompletion_verify(received, svc.key, svc.login_request,
                                                 svc.initial_resp)
          IN  /\ (clients'[u].access_token /= clients[u].access_token
                  /\ clients'[u].access_token /= NoBytes)
                 => /\ svc.pc = "await_completion"
                    /\ svc.cmd.url = u
                    /\ verified
                    /\ received.result = LoginResult_Success(clients'[u].access_token)
              /\ (svc.pc = "await_completion" /\ received /= NoCompletion /\ ~verified)
                 => /\ clients'[u].access_token = clients[u].access_token
                    /\ \A i \in 1 .. Len(ui_rx') :
                          i > Len(ui_rx) => ui_rx'[i].result.variant /= "Success"]_vars

\* a login stored a token, and a later login received a completion whose tag
\* did not verify
C9_Witness ==
    /\ \E u \in Urls : clients[u].access_token /= NoBytes
    /\ GotCompletion
    /\ ~CompletionVerifies

\* C10: when the server_tag of the received completion does not verify, login
\* returns an error to verdant_service and the task keeps running.
C10_AuthFailureReturned ==
    (GotCompletion /\ ~CompletionVerifies)
        => /\ svc.outcome = "err"
           /\ svc.pc /= "panicked"

\* jsonwebtoken::decode, the call validate_token leaves out: the token was
\* signed by the key the decoder holds, with a permitted algorithm
TokenSigner(token) == Spki(OidRsaEncryption, <<token[2] - 48>>)
jwt_decode(token, decoder, validation) ==
    /\ decoder.family = "Rsa"
    /\ decoder.der = TokenSigner(token)
    /\ "RS256" \in validation

\* C11: a token is stored in access_token only if its signature and claims
\* validate against the decoding key fetched at bootstrap.
C11_StoredTokenValidated ==
    \A u \in Urls :
        clients[u].access_token /= NoBytes
            => jwt_decode(clients[u].access_token, clients[u].decoder, clients[u].validation)

\* the events and requests of command n
UiOf(n) == {i \in 1 .. Len(ui_rx) : ui_rx[i].cmd = n}
HttpOf(n, path) == {i \in 1 .. Len(http) : http[i].cmd = n /\ http[i].path = path}

\* C12: a Login command whose LoginResult sent to the UI is Unauthorized is
\* followed by no LkToken event of that command, whatever came before it.
C12_NoLkTokenAfterUnauthorized ==
    \A i \in 1 .. Len(ui_rx) :
        (ui_rx[i].variant = "LoginResult" /\ ui_rx[i].result.variant = "Unauthorized")
            => \A j \in UiOf(ui_rx[i].cmd) : ui_rx[j].variant /= "LkToken"

\* the step in which login receives the parsed reply to its LoginRequest
ReceivesLoginResponse(variant) ==
    /\ svc.pc = "await_login_response"
    /\ svc'.pc /= "await_login_response"
    /\ svc'.status = "ok"
    /\ svc'.initial_resp.variant = variant
    /\ svc'.err /= "Http"

\* login returned result in this step: verdant_service sent it to the UI
ReturnsToUi(result) ==
    /\ svc'.outcome = "ok"
    /\ Len(ui_rx') = Len(ui_rx) + 1
    /\ ui_rx'[Len(ui_rx')] = VerdantUiCmd_LoginResult(result, svc.n)

\* no finalize request, no finish_login (no key, no upload), token untouched
StopsBeforeFinalize ==
    /\ HttpOf(svc.n, "/auth/api/login/finalize") = {}
    /\ \A i \in 1 .. Len(http') : http'[i].path = "/auth/api/login/finalize"
                                     => http'[i].cmd /= svc.n
    /\ svc'.key = NoBytes
    /\ svc'.upload = NoUpload
    /\ \A u \in Urls : clients'[u].access_token = clients[u].access_token

\* C13: on LoginResponse::OTP login returns PasswordReset, posts nothing to
\* /auth/api/login/finalize, does not run finish_login and leaves
\* access_token as it was.
C13_OtpIsPasswordReset ==
    [][ReceivesLoginResponse("OTP")
          => ReturnsToUi(LoginResult_PasswordReset) /\ StopsBeforeFinalize]_vars

C13_Witness ==
    /\ svc.initial_resp.variant = "OTP"
    /\ svc.outcome = "ok"
    /\ \E i \in UiOf(svc.n) : ui_rx[i].result = LoginResult_PasswordReset

\* C14: on LoginResponse::AccessDenied login returns Unauthorized, posts no
\* finalize request and leaves access_token as it was.
C14_AccessDeniedIsUnauthorized ==
    [][ReceivesLoginResponse("AccessDenied")
          => ReturnsToUi(LoginResult_Unauthorized) /\ StopsBeforeFinalize]_vars

C14_Witness ==
    /\ svc.status = "ok"
    /\ svc.initial_resp.variant = "AccessDenied"
    /\ svc.outcome = "ok"
    /\ svc.cmd.variant = "Login"
    /\ \E i \in UiOf(svc.n) : ui_rx[i].result = LoginResult_Unauthorized

\* C15: within one call of login the LoginRequest is sent first; at most one
\* LoginUpload is sent, and only after a PAKE response was received and
\* finish_login succeeded; its id is the session id of that response, its
\* upload is the finalization of finish_login and its client_tag verifies
\* over the LoginRequest sent and the LoginResponse received in this call;
\* a LoginCompletion is processed only after the upload was sent.
C15_MessageOrder ==
    /\ \A n \in 1 .. svc.n :
          LET requests == HttpOf(n, "/auth/api/login/")
              uploads == HttpOf(n, "/auth/api/login/finalize")
          IN  /\ Cardinality(requests) <= 1
              /\ Cardinality(uploads) <= 1
              /\ \A f \in uploads : \E l \in requests : l < f
    /\ HttpOf(svc.n, "/auth/api/login/finalize") /= {}
          => LET finished == Client_finish_login(svc.opaque_client, svc.client_login,
                                                 svc.initial_resp.cred)
             IN  /\ svc.initial_resp.variant = "PAKE"
                 /\ finished.ok
                 /\ svc.key = finished.key
                 /\ svc.upload.id = svc.initial_resp.id
                 /\ svc.upload.upload = finished.fin
                 /\ LoginUpload_verify(svc.upload, svc.key, svc.login_request,
                                       svc.initial_resp)
    /\ GotCompletion => HttpOf(svc.n, "/auth/api/login/finalize") /= {}

C15_Witness ==
    /\ GotCompletion
    /\ CompletionVerifies
    /\ HttpOf(svc.n, "/auth/api/login/finalize") /= {}

\* C16: bootstrapping against a server whose public key is an Ed448 key
\* fails and creates no APIClient: no client holds an Ed448 key.
C16_Ed448Rejected ==
    \A u \in Urls :
        clients[u].present => detect_key_type(clients[u].decoder.der) /= KeyType_Ed448

\* the DecodingKey family bootstrap is to use for a key type
FamilyOf(key_type) ==
    CASE key_type.variant = "Rsa" -> "Rsa"
      [] key_type.variant = "Ec" -> "Ec"
      [] key_type.variant = "Ed25519" -> "Ed"
      [] OTHER -> "none"

\* C17: the key family bootstrap decodes the fetched key with is the one of
\* the algorithm OID inside the DER, whatever the key_type of the response.
C17_FamilyFromOid ==
    \A u \in Urls :
        clients[u].present
            => clients[u].decoder.family = FamilyOf(detect_key_type(clients[u].decoder.der))

\* C18: the validation built by from_discovery permits RS256/RS384/RS512 for
\* an RSA key and no RSA algorithm for an EC or Ed25519 key.
C18_AlgorithmsMatchFamily ==
    \A u \in Urls :
        clients[u].present
            => IF clients[u].decoder.family = "Rsa"
               THEN clients[u].validation = {"RS256", "RS384", "RS512"}
               ELSE clients[u].validation \cap {"RS256", "RS384", "RS512"} = {}

\* C19: from_discovery on a Discovery without URLs returns MissingIpAddr and
\* sends no request, and a ServerDiscovered command for such a Discovery does
\* not end the orchestrator.
C19_MissingUrlSurfaced ==
    /\ \A d \in Discoveries, reply \in PubKeyReplies :
          Len(d.urls) = 0 => from_discovery(d, reply).err = "MissingIpAddr"
    /\ (svc.n > 0 /\ svc.cmd.variant = "ServerDiscovered"
        /\ Len(svc.cmd.discovery.urls) = 0)
          => /\ HttpOf(svc.n, "/pubkey") = {}
             /\ svc.pc /= "panicked"

\* C20: a reply with a non-2xx status ends in an Http error: its body is not
\* parsed and used.
C20_Non2xxIsTransportError ==
    svc.status = "non2xx" => svc.err = "Http"

\* C21: the orchestrator emits at most one ServerDiscovered UI event per
\* distinct Discovery value, whether the commands come from the discovery
\* callback or are sent by hand.  Violated: only the callback drops repeats
\* (its Vec known); verdant_service emits an event for every ServerDiscovered
\* command it receives.
C21_OneEventPerDiscovery ==
    \A i, j \in 1..Len(ui_rx) :
        (i < j /\ ui_rx[i].variant = "ServerDiscovered"
               /\ ui_rx[j].variant = "ServerDiscovered")
            => ui_rx[i].discovery /= ui_rx[j].discovery

IsPrefix(s, t) == Len(s) <= Len(t) /\ SubSeq(t, 1, Len(s)) = s

\* the entries a step appended to a log all belong to command n
AppendedFor(log, log2, n) ==
    /\ IsPrefix(log, log2)
    /\ \A i \in Len(log) + 1 .. Len(log2) : log2[i].cmd = n

\* C24: the orchestrator handles commands one at a time in channel order: a
\* command is dequeued only while no request of an earlier command is
\* outstanding, it is the head of the channel, every request and UI event of
\* a step belongs to the command being handled, and so the requests of two
\* logins never interleave and LoginResult events come in command order.
C24_OneAtATime ==
    /\ [](/\ \A i, j \in 1 .. Len(http) : i < j => http[i].cmd <= http[j].cmd
          /\ \A i, j \in 1 .. Len(ui_rx) : i < j => ui_rx[i].cmd <= ui_rx[j].cmd
          /\ \A i, j \in 1 .. Len(ui_rx) :
                (i < j /\ ui_rx[i].variant = "LoginResult"
                       /\ ui_rx[j].variant = "LoginResult")
                    => ui_rx[i].cmd < ui_rx[j].cmd)
    /\ [][/\ (svc'.n /= svc.n \/ Len(cmd_rx') < Len(cmd_rx))
              => /\ svc.pc = "recv"
                 /\ cmd_rx /= <<>>
                 /\ svc'.cmd = Head(cmd_rx)
                 /\ cmd_rx' = Tail(cmd_rx)
                 /\ svc'.n = svc.n + 1
          /\ AppendedFor(http, http', svc'.n)
          /\ AppendedFor(ui_rx, ui_rx', svc'.n)]_vars

\* two Login commands handled one after the other, the first through request,
\* finalize and token fetch, each with its LoginResult
C24_Witness ==
    \E n1, n2 \in 1 .. MaxCmds :
        /\ n1 < n2
        /\ HttpOf(n1, "/auth/api/login/") /= {}
        /\ HttpOf(n1, "/auth/api/login/finalize") /= {}
        /\ HttpOf(n1, "/rpc/token") /= {}
        /\ HttpOf(n2, "/auth/api/login/") /= {}
        /\ \E i, j \in 1 .. Len(ui_rx) :
              /\ ui_rx[i].variant = "LoginResult" /\ ui_rx[i].cmd = n1
              /\ ui_rx[j].variant = "LoginResult" /\ ui_rx[j].cmd = n2

\* C30: get_livekit_token sends its request only when an access token is
\* held, with exactly that token as Bearer credential; without a token it
\* returns Unauthorized and sends nothing; no other request carries a token.
C30_TokenOnlyOnTokenCall ==
    /\ \A i \in 1 .. Len(http) :
          IF http[i].path = "/rpc/token" THEN http[i].bearer /= NoBytes
          ELSE http[i].bearer = NoBytes
    /\ svc.pc = "await_token"
          => /\ clients[svc.cmd.url].access_token /= NoBytes
             /\ http[Len(http)] = HttpRequest("/rpc/token", svc.cmd.url,
                                               clients[svc.cmd.url].access_token, svc.n)
    /\ (svc.pc = "recv" /\ svc.outcome \in {"ok", "err"}
            /\ clients[svc.cmd.url].access_token = NoBytes)
          => /\ HttpOf(svc.n, "/rpc/token") = {}
             /\ svc.lk_err = "Unauthorized"

\* both cases: the token request of a login carries the token just stored,
\* after an earlier login that left no token sent no token request
C30_Witness ==
    /\ svc.pc = "await_token"
    /\ http[Len(http)].bearer = Token(1)
    /\ \E k \in 1 .. MaxCmds :
          /\ k < svc.n
          /\ HttpOf(k, "/auth/api/login/") /= {}
          /\ HttpOf(k, "/rpc/token") = {}
          /\ \E i \in UiOf(k) : ui_rx[i].variant = "LoginResult"

\* C28: once a client step has returned, the password it used is held neither
\* by the Client nor by the state the step returned.  Violated: Client::new
\* stores the password in the Client, which keeps it across start_login and
\* finish_login; the ClientLogin state itself holds only the blind, the
\* blinded element and the ephemeral key.
C28_PasswordNotRetained ==
    \A i \in Attempts :
        login[i].pc /= "idle" => login[i].client.password = 0

\* C22: a LoginUpload whose id is the session id of no pending login is
\* answered Unauthorized (with the all-zero tag), the same answer whatever
\* else is pending, and every pending login stays as it was.
C22_UnknownIdUnauthorized ==
    (fin.handled /\ ~fin.found)
        => /\ fin.completion = [result |-> LoginResult_Unauthorized,
                                server_tag |-> [i \in 1 .. TagSize |-> 0]]
           /\ fin.untouched

\* an upload a client made, sent under an id the server never chose while
\* two logins are pending
C22_Witness ==
    /\ fin.handled /\ ~fin.found
    /\ fin.upload.id = Uuid_of(0)
    /\ \E i \in Sessions : sess[i].pc = "uploaded" /\ fin.upload.upload = sess[i].upload.upload
    /\ Cardinality(DOMAIN pending) = 2

\* C23: the login state of a session id is taken out of the map by the first
\* finalize handled for it, accepted or refused, it never comes back, and a
\* later LoginUpload for that id, even a copy of the accepted one, is refused.
C23_SingleFinalize ==
    /\ fin.closed \cap DOMAIN pending = {}
    /\ (fin.handled /\ fin.found) => fin.upload.id \in fin.closed
    /\ (fin.handled /\ fin.upload.id \in fin.closed /\ ~fin.found)
          => fin.completion.result.variant = "Unauthorized"
    /\ \A i \in Sessions :
          sess[i].pc = "done" => sess[i].initial_resp.id \notin DOMAIN pending

\* the copy of an upload that was accepted is handled and refused
C23_Witness ==
    \E i \in Sessions :
        /\ sess[i].pc = "done"
        /\ sess[i].final_resp.result.variant = "Success"
        /\ fin.handled /\ ~fin.found
        /\ fin.upload = sess[i].upload
        /\ fin.completion.result.variant = "Unauthorized"

Keyed(i) == sess[i].pc \in {"uploaded", "done"}

\* C25: two logins of the same user against one server have different session
\* keys, and neither the client tag nor the server tag of one verifies under
\* the session key and transcript of the other.
C25_SessionsSeparate ==
    \A i, j \in Sessions :
        (i /= j /\ Keyed(i) /\ Keyed(j)
              /\ sess[i].login_request.username = sess[j].login_request.username)
            => /\ sess[i].key /= sess[j].key
               /\ ~LoginUpload_verify(sess[i].upload, sess[j].key,
                                      sess[j].login_request, sess[j].initial_resp)
               /\ sess[i].pc = "done"
                     => ~LoginCompletion_verify(sess[i].final_resp, sess[j].key,
                                                sess[j].login_request,
                                                sess[j].initial_resp)

\* two logins that were pending at the same time and both succeeded, each
\* with tags that verify in its own session
C25_Witness ==
    \E i, j \in Sessions :
        /\ i /= j
        /\ sess[i].initial_resp.id \in sess[j].concurrent
        /\ \A k \in {i, j} :
              /\ sess[k].pc = "done"
              /\ sess[k].final_resp.result.variant = "Success"
              /\ LoginUpload_verify(sess[k].upload, sess[k].key,
                                    sess[k].login_request, sess[k].initial_resp)
              /\ LoginCompletion_verify(sess[k].final_resp, sess[k].key,
                                        sess[k].login_request, sess[k].initial_resp)

C26_TranscriptFunction ==
    tag.pc = "transcript"
        => /\ tag.transcript = LOGIN_TRANSCRIPT_V1 \o EncodeLoginRequest(tag.request)
                                   \o EncodeLoginResponse(tag.response)
           /\ (tag.transcript = tag.transcript2)
                 <=> (tag.request = tag.request2 /\ tag.response = tag.response2)
           /\ tag.parsed = [ok |-> TRUE, transcript |-> tag.transcript]

\* two transcripts of equal length that differ, the first with a string form
\* that ends in padding
C26_Witness ==
    /\ tag.pc = "transcript"
    /\ tag.transcript /= tag.transcript2
    /\ Len(tag.transcript) = Len(tag.transcript2)
    /\ Len(tag.transcript) % 3 = 1
    /\ tag.parsed.ok

WirePast(stages) == wire.pc \in stages

\* C27: a LoginRequest and a LoginResponse written as JSON and read back are
\* equal to the originals, the bytes decoded from the parsed request's
\* credentials are the CredentialRequest that LoginRequest::new was given,
\* and the login that used the parsed messages ends with equal session keys.
C27_WireLossless ==
    /\ WirePast({"request_parsed", "response", "response_parsed", "done", "failed"})
          => /\ wire.parsed_request = [ok |-> TRUE, value |-> wire.request]
             /\ wire.parsed_credential_request
                   = [ok |-> TRUE, bytes |-> wire.credential_request]
    /\ WirePast({"response_parsed", "done", "failed"})
          => wire.parsed_response = [ok |-> TRUE, value |-> wire.response]
    /\ wire.pc /= "failed"
    /\ wire.pc = "done"
          => wire.client_key = wire.server_key /\ wire.client_key /= NoBytes

\* a login through JSON that ended with a key, for a user name that holds a
\* quote and a backslash and a session id written with a hexadecimal letter
C27_Witness ==
    /\ wire.pc = "done"
    /\ wire.username = <<34, 92>>
    /\ wire.response.id = <<171>>
    /\ wire.client_key = wire.server_key

\* C31: verdant_service_new called with a null runtime pointer creates a
\* runtime itself and returns a non-null handle; it returns null only when
\* VerdantService::new fails.
C31_NullRuntimeCreated ==
    native.call.fn = "verdant_service_new"
        => /\ native.call.rt_ptr = Null => native.call.ret # Null
           /\ native.call.ret = Null => native.call.created = "Err"

\* C32: the two tag verifications examine the same number of bytes whatever
\* the position of the first byte in which a presented tag differs from the
\* expected one.
C32_ConstantTimeTags ==
    (ct.pc = "compared" /\ ~ct.equal1 /\ ~ct.equal2) => ct.examined1 = ct.examined2

\* the n-th command is a Login that sits in the command channel
QueuedLogin(n) ==
    /\ n > svc.n
    /\ n - svc.n <= Len(cmd_rx)
    /\ cmd_rx[n - svc.n].variant = "Login"

LoginResultsOf(n) == {i \in UiOf(n) : ui_rx[i].variant = "LoginResult"}

\* C33: whatever the earlier commands did, every Login command that entered
\* the command channel is eventually answered by exactly one LoginResult
\* event.
C33_EveryLoginAnswered ==
    \A n \in 1 .. MaxCmds :
        /\ QueuedLogin(n) ~> (Cardinality(LoginResultsOf(n)) = 1)
        /\ [](Cardinality(LoginResultsOf(n)) <= 1)

\* the events that answer a Login with UnknownServer
UnknownServerEvents ==
    {i \in 1 .. Len(ui_rx) : /\ ui_rx[i].variant = "LoginResult"
                             /\ ui_rx[i].result.variant = "UnknownServer"}

\* C34: the step that receives a Login whose url is not in the client map
\* sends the single event LoginResult(UnknownServer(url)), sends no HTTP
\* request and leaves the map as it was; that command gets no other event,
\* no LkToken in particular, and no request at any time.
C34_UnknownServerAnswer ==
    /\ [](\A i \in UnknownServerEvents :
              /\ UiOf(ui_rx[i].cmd) = {i}
              /\ \A j \in 1 .. Len(http) : http[j].cmd /= ui_rx[i].cmd)
    /\ [][(/\ svc.pc = "recv"
           /\ cmd_rx /= <<>>
           /\ Head(cmd_rx).variant = "Login"
           /\ ~clients[Head(cmd_rx).url].present
           /\ cmd_rx' = Tail(cmd_rx))
              => /\ ui_rx' = Append(ui_rx, VerdantUiCmd_LoginResult(
                                 LoginResult_UnknownServer(Head(cmd_rx).url), svc.n + 1))
                 /\ http' = http
                 /\ clients' = clients
                 /\ svc'.pc = "recv"]_vars

\* a Login for u2 answered with UnknownServer while u1 has a client
C34_Witness ==
    /\ clients[Url(1)].present
    /\ ~clients[Url(2)].present
    /\ svc.pc = "recv"
    /\ svc.cmd.variant = "Login"
    /\ ui_rx /= <<>>
    /\ ui_rx[Len(ui_rx)] = VerdantUiCmd_LoginResult(LoginResult_UnknownServer(Url(2)), svc.n)

\* C35: when the UI holds ServerDiscovered(d), the map holds a client under
\* d's first URL, bootstrapped for that URL; no Login for that URL answered
\* after the event is answered with UnknownServer.
C35_DiscoveredIsKnown ==
    \A i \in 1 .. Len(ui_rx) :
        ui_rx[i].variant = "ServerDiscovered"
            => /\ ui_rx[i].discovery.urls /= <<>>
               /\ clients[FirstUrl(ui_rx[i].discovery)].present
               /\ clients[FirstUrl(ui_rx[i].discovery)].url = FirstUrl(ui_rx[i].discovery)
               /\ \A j \in UnknownServerEvents :
                      j > i => ui_rx[j].result.text /= FirstUrl(ui_rx[i].discovery)

\* the UI was told of u1, and a later Login for u1 was answered
C35_Witness ==
    \E i \in 1 .. Len(ui_rx), j \in 1 .. Len(ui_rx) :
        /\ i < j
        /\ ui_rx[i].variant = "ServerDiscovered"
        /\ FirstUrl(ui_rx[i].discovery) = Url(1)
        /\ ui_rx[j].variant = "LoginResult"
        /\ ui_rx[j].result.variant = "Success"

\* command n was a Login for a URL of the map: login posted its request
KnownLogin(n) == HttpOf(n, "/auth/api/login/") /= {}

\* the orchestrator is no longer working on command n
Ended(n) == n < svc.n \/ (n = svc.n /\ svc.pc \in {"recv", "panicked"})

\* C36: a Login for a known server gets exactly one LoginResult event, which
\* is Unauthorized when APIClient::login returned an error; an LkToken event
\* of that command comes after its LoginResult and before every event of a
\* later command.
C36_OneLoginResult ==
    \A n \in 1 .. MaxCmds :
        (KnownLogin(n) /\ Ended(n))
            => /\ Cardinality(LoginResultsOf(n)) = 1
               /\ (n = svc.n /\ svc.outcome = "err")
                     => \A i \in LoginResultsOf(n) : ui_rx[i].result = LoginResult_Unauthorized
               /\ \A i \in UiOf(n) :
                      ui_rx[i].variant = "LkToken"
                          => /\ \E j \in LoginResultsOf(n) : j < i
                             /\ \A k \in 1 .. Len(ui_rx) : k < i => ui_rx[k].cmd <= n

\* C37: apart from the replacement of the whole client by a ServerDiscovered
\* command, a client's access_token changes only in the step in which login
\* returns Success(token), and becomes that token; a login that returns
\* PasswordReset, Unauthorized or an error leaves it as it was, and a token
\* held from before is then sent as bearer by get_livekit_token.
C37_TokenFrame ==
    [][svc.pc /= "await_pubkey"
          => /\ \A u \in Urls :
                    clients'[u].access_token /= clients[u].access_token
                        => /\ u = svc.cmd.url
                           /\ svc.pc = "await_completion"
                           /\ svc'.outcome = "ok"
                           /\ ui_rx' = Append(ui_rx, VerdantUiCmd_LoginResult(
                                  LoginResult_Success(clients'[u].access_token), svc.n))
             /\ (/\ svc.pc \in {"await_login_response", "await_completion"}
                 /\ Len(ui_rx') = Len(ui_rx) + 1
                 /\ ui_rx'[Len(ui_rx')].result.variant /= "Success")
                   => /\ clients'[svc.cmd.url] = clients[svc.cmd.url]
                      /\ clients[svc.cmd.url].access_token /= NoBytes
                            => http' = Append(http,
                                   HttpRequest("/rpc/token", svc.cmd.url,
                                               clients[svc.cmd.url].access_token, svc.n))
      ]_vars

\* a login that failed at the finalize request on a client that holds the
\* token of an earlier login, which get_livekit_token is sending
C37_Witness ==
    /\ svc.pc = "await_token"
    /\ svc.outcome = "err"
    /\ svc.upload /= NoUpload
    /\ clients[svc.cmd.url].access_token /= NoBytes
    /\ \E i \in LoginResultsOf(svc.n) : ui_rx[i].result = LoginResult_Unauthorized
    /\ \E j \in 1 .. Len(http) :
           http[j] = HttpRequest("/rpc/token", svc.cmd.url,
                                 clients[svc.cmd.url].access_token, svc.n)

\* C38: when the reply to the finalize request is
\* LoginCompletion::unauthorized(), login returns Ok(Unauthorized) and the UI
\* receives LoginResult(Unauthorized) for that command.
C38_UnauthorizedReturned ==
    (/\ svc.cmd.variant = "Login"
     /\ svc.pc /= "await_completion"
     /\ svc.status = "ok"
     /\ svc.final_resp = LoginCompletion_unauthorized)
        => /\ svc.outcome = "ok"
           /\ \E i \in LoginResultsOf(svc.n) : ui_rx[i].result = LoginResult_Unauthorized

\* an APIClient without its token
Bootstrap(client) == [client EXCEPT !.access_token = NoBytes]

\* C39: which clients the map holds, and for which keys, changes only in the
\* step that completes a ServerDiscovered command; that step touches the
\* entry of the discovery's first URL only, and the client it puts there
\* holds no access token, whatever the replaced client held.
C39_MapFrame ==
    [][/\ (\E u \in Urls : Bootstrap(clients'[u]) /= Bootstrap(clients[u]))
             => (svc.pc = "await_pubkey" /\ svc.cmd.variant = "ServerDiscovered")
       /\ (svc.pc = "await_pubkey" /\ svc'.pc = "recv")
             => /\ clients'[FirstUrl(svc.cmd.discovery)].present
                /\ clients'[FirstUrl(svc.cmd.discovery)].access_token = NoBytes
                /\ \A u \in Urls : u /= FirstUrl(svc.cmd.discovery)
                                      => clients'[u] = clients[u]
      ]_vars

\* u1 was discovered again after a login had stored a token in its client
C39_Witness ==
    /\ svc.pc = "recv"
    /\ svc.cmd.variant = "ServerDiscovered"
    /\ clients[Url(1)].present
    /\ clients[Url(1)].access_token = NoBytes
    /\ \E i \in 1 .. Len(ui_rx), j \in 1 .. Len(ui_rx) :
           /\ i < j
           /\ ui_rx[i].variant = "LoginResult"
           /\ ui_rx[i].result.variant = "Success"
           /\ ui_rx[j] = VerdantUiCmd_ServerDiscovered(svc.cmd.discovery, svc.n)
           /\ FirstUrl(svc.cmd.discovery) = Url(1)

\* C40: a login in which Server::start_login was given a username other than
\* the one the record was registered under does not succeed, whatever the
\* password: Client::finish_login returns an error, and neither side ends
\* with a session key.
C40_RecordBoundToUsername ==
    \A i \in Attempts :
        (login[i].pc \notin {"idle", "client_started", "server_started"}
            /\ login[i].uname /= login[i].user)
            => /\ login[i].pc = "client_failed"
               /\ login[i].client_key = NoBytes
               /\ login[i].server_key = NoBytes

\* the registered password, the record of user 1, the username of user 2:
\* finish_login has failed
C40_Witness ==
    /\ login[1].pc = "client_failed"
    /\ login[1].user = 1
    /\ login[1].uname = 2
    /\ regPw[1] /= 0
    /\ login[1].client = Client_new(regPw[1])

============================================================================
